---- MODULE Spec2Model ----
(***************************************************************************)
(* A model of the sampler kernel of the diffusers repository:              *)
(*   - EulerAncestralDiscreteScheduler (constructor, set_timesteps, step), *)
(*   - retrieve_timesteps (the timestep selector used by the pipelines),   *)
(*   - the guidance combiners (PAGMixin, MeissonicInpaintPipeline),        *)
(*   - the posterior-noise step of the value-guided example loop.          *)
(*                                                                         *)
(* Floating point numbers are modelled as fixed-point integers: the        *)
(* integer x stands for the real x / One.  Timesteps, which the code       *)
(* computes with np.linspace, are exact rationals <<num, den>>.            *)
(***************************************************************************)
EXTENDS Integers, Sequences, FiniteSets, TLC

VARIABLES
    prog,                  \* which program of the repository runs
    ctor,                  \* the latest constructor call: its arguments and outcome
    config,                \* scheduler.config (register_to_config)
    betas,                 \* scheduler.betas
    alphas_cumprod,        \* scheduler.alphas_cumprod
    sigmas,                \* scheduler.sigmas
    sigmas_dtype,          \* the dtype of the tensor scheduler.sigmas
    init_noise_sigma,      \* scheduler.init_noise_sigma
    num_inference_steps,   \* scheduler.num_inference_steps
    timesteps,             \* scheduler.timesteps
    derivatives,           \* scheduler.derivatives
    rng,                   \* the state of torch's global random generator
    last,                  \* the arguments and results of the latest step call
    latents,               \* the sample a sampling loop carries from step to step
    run_pos,               \* how many step calls, in order 0, 1, ..., followed set_timesteps
    step_calls,            \* how many step calls followed the latest set_timesteps (or __init__)
    ret,                   \* the latest call a caller made of set_timesteps,
                           \* scale_model_input and add_noise, and what it returned
    vg,                    \* the value-guided example loop: its position and latest iteration
    pipe,                  \* a pipeline run: its position and the scheduler calls it has made
    ip,                    \* the latest IP-adapter scale expansion: its arguments and outcome
    ckpt,                  \* the training loop: its counters and the checkpoints on disk
    cache,                 \* the hub caches on disk, the version file and the migrations run
    fuse,                  \* the transformer's attention processors and the saved originals
    set_timesteps_params,  \* which of timesteps, sigmas the scheduler's set_timesteps accepts
    rt,                    \* the latest retrieve_timesteps call: its arguments and outcome
    pag,                   \* the PAG settings of the pipeline (PAGMixin)
    processors,            \* the processor of each self-attention layer of the unet
    pag_call,              \* the latest enable_pag or disable_pag call and its outcome
    guide                  \* the latest guidance combination: its inputs and result

schedVars == <<ctor, config, betas, alphas_cumprod, sigmas, sigmas_dtype, init_noise_sigma,
               num_inference_steps, timesteps, derivatives, rng, last, latents, run_pos,
               step_calls, ret>>

rtVars == <<set_timesteps_params, rt>>

pagVars == <<pag, processors, pag_call, guide>>

\* the programs around the scheduler
loopVars == <<vg, pipe, ip>>

\* the programs that do not use a scheduler
hostVars == <<ckpt, cache, fuse>>

vars == <<prog, hostVars, schedVars, loopVars, rtVars, pagVars>>

----------------------------------------------------------------------------
(* Bounds of the model.                                                    *)

\* the largest num_train_timesteps a scheduler is constructed with
MaxTrain == 4
\* the most draws taken from the global random generator, one per step call
MaxDraws == 4
\* the largest num_inference_steps a pipeline is called with
MaxInferenceSteps == 4
\* the largest --max_train_steps of a training run
MaxTrainSteps == 3
\* the most imports of the module in one behaviour
MaxImports == 3
\* the most calls of unfuse_qkv_projections that follow one fuse_qkv_projections
MaxUnfuses == 3

----------------------------------------------------------------------------
(* Fixed-point arithmetic.                                                 *)

\* the fixed-point unit: the integer One stands for 1.0
One == 1000

\* Python's None, for the attributes the constructor leaves unset
None == -1

\* an optional list argument: not given (None), or given with a value
NotGiven == [given |-> FALSE, value |-> <<>>]
Given(v) == [given |-> TRUE, value |-> v]

FMul(a, b) == (a * b) \div One
FDiv(a, b) == (a * One) \div b

RECURSIVE SqrtIter(_, _, _)
SqrtIter(n, lo, hi) ==
    IF lo >= hi THEN lo
    ELSE LET mid == (lo + hi + 1) \div 2
         IN  IF mid * mid <= n THEN SqrtIter(n, mid, hi) ELSE SqrtIter(n, lo, mid - 1)

\* x ** 0.5 on fixed-point numbers
FSqrt(a) == SqrtIter(a * One, 0, IF a * One < 46340 THEN a * One ELSE 46340)

----------------------------------------------------------------------------
(* linspace: the numerators of num evenly spaced values from start to stop *)
(* over the common denominator Den(num).                                   *)

Den(num) == IF num > 1 THEN num - 1 ELSE 1

Linspace(start, stop, num) ==
    [i \in 1..num |-> start * Den(num) + (i - 1) * (stop - start)]

\* torch.linspace on fixed-point numbers
FLinspace(start, stop, num) ==
    [i \in 1..num |-> Linspace(start, stop, num)[i] \div Den(num)]

Reverse(s) == [i \in 1..Len(s) |-> s[Len(s) + 1 - i]]

----------------------------------------------------------------------------
(* EulerAncestralDiscreteScheduler.__init__                                *)

BetaSchedules == {"linear", "scaled_linear"}

\* the constructor arguments the samplers are built with: beta_start < beta_end,
\* both positive, no trained_betas
Configs ==
    [num_train_timesteps : 1..MaxTrain,
     beta_start : {One \div 10},
     beta_end : {One \div 5},
     beta_schedule : BetaSchedules,
     trained_betas : {NotGiven}]

\* the constructor arguments the constructor is checked on: beta_start below, at
\* and above beta_end, schedule names the constructor does not know, trained_betas
\* of a length that is or is not num_train_timesteps
CtorArgs ==
    [num_train_timesteps : 1..MaxTrain,
     beta_start : {One \div 20, One \div 10, One \div 5},
     beta_end : {One \div 10, One \div 5},
     beta_schedule : BetaSchedules \cup {"squaredcos_cap_v2", "cubic"},
     trained_betas : {NotGiven, Given(<<One \div 10, One \div 5>>),
                      Given(<<One \div 5, One \div 20, One \div 10>>)}]

\* the constructor raising whenever the schedule name is unknown
CtorRaises_UnknownName(cfg) == cfg.beta_schedule \notin BetaSchedules

\* the constructor reaches its last branch, raise NotImplementedError
CtorRaises(cfg) == ~cfg.trained_betas.given /\ cfg.beta_schedule \notin BetaSchedules

InitBetas(cfg) ==
    IF cfg.trained_betas.given
    THEN cfg.trained_betas.value
    ELSE IF cfg.beta_schedule = "linear"
    THEN FLinspace(cfg.beta_start, cfg.beta_end, cfg.num_train_timesteps)
    ELSE LET r == FLinspace(FSqrt(cfg.beta_start), FSqrt(cfg.beta_end), cfg.num_train_timesteps)
         IN  [i \in 1..cfg.num_train_timesteps |-> FMul(r[i], r[i])]

RECURSIVE CumProd(_, _)
CumProd(a, n) ==
    IF n = 0 THEN <<>>
    ELSE IF n = 1 THEN <<a[1]>>
    ELSE LET p == CumProd(a, n - 1) IN Append(p, FMul(p[n - 1], a[n]))

InitAlphasCumprod(b) == CumProd([i \in 1..Len(b) |-> One - b[i]], Len(b))

\* ((1 - alphas_cumprod) / alphas_cumprod) ** 0.5, one sigma per training timestep
TrainSigmas(ac) == [i \in 1..Len(ac) |-> FSqrt(FDiv(One - ac[i], ac[i]))]

\* the sigmas in the order of the training timesteps
InitSigmas_NotReversed(ac) == Append(TrainSigmas(ac), 0)

InitSigmas(ac) == Append(Reverse(TrainSigmas(ac)), 0)

\* np.arange(0, num_train_timesteps)[::-1]
InitTimesteps(n) == [i \in 1..n |-> <<n - i, 1>>]

NoCall == [step_index |-> None, model_output |-> 0, sample |-> 0, noise |-> 0,
           prev_sample |-> 0, sample_after |-> 0]

\* no scale_model_input or add_noise call made yet
RetNone == [fn |-> "none", value |-> 0]

\* the record of a constructor call
CtorCall(cfg, outcome) == [args |-> cfg, outcome |-> outcome]

\* a scheduler constructed with the arguments cfg
SchedulerInit(cfg) ==
    /\ ctor = CtorCall(cfg, "constructed")
    /\ config = cfg
    /\ betas = InitBetas(cfg)
    /\ alphas_cumprod = InitAlphasCumprod(InitBetas(cfg))
    /\ sigmas = InitSigmas(InitAlphasCumprod(InitBetas(cfg)))
    /\ sigmas_dtype = "float32"
    /\ ret = RetNone
    /\ init_noise_sigma = None
    /\ num_inference_steps = None
    /\ timesteps = InitTimesteps(cfg.num_train_timesteps)
    /\ derivatives = <<>>
    /\ rng = 0
    /\ last = NoCall
    /\ latents = 0
    /\ run_pos = None
    /\ step_calls = 0

\* a program that holds no scheduler yet
NoConfig == [num_train_timesteps |-> 0, beta_start |-> 0, beta_end |-> 0,
             beta_schedule |-> "none", trained_betas |-> NotGiven]

NoScheduler ==
    /\ ctor = CtorCall(NoConfig, "none")
    /\ config = NoConfig
    /\ betas = <<>>
    /\ alphas_cumprod = <<>>
    /\ sigmas = <<>>
    /\ sigmas_dtype = "float32"
    /\ ret = RetNone
    /\ init_noise_sigma = None
    /\ num_inference_steps = None
    /\ timesteps = <<>>
    /\ derivatives = <<>>
    /\ rng = 0
    /\ last = NoCall
    /\ latents = 0
    /\ run_pos = None
    /\ step_calls = 0

\* EulerAncestralDiscreteScheduler(**cfg): the scheduler variables describe the
\* object the call yields; a constructor that raises yields none
Construct(cfg) ==
    /\ prog = "construct"
    /\ ctor' = CtorCall(cfg, IF CtorRaises(cfg) THEN "NotImplementedError" ELSE "constructed")
    /\ config' = IF CtorRaises(cfg) THEN NoConfig ELSE cfg
    /\ betas' = IF CtorRaises(cfg) THEN <<>> ELSE InitBetas(cfg)
    /\ alphas_cumprod' = InitAlphasCumprod(betas')
    /\ sigmas' = IF CtorRaises(cfg) THEN <<>> ELSE InitSigmas(alphas_cumprod')
    /\ timesteps' = IF CtorRaises(cfg) THEN <<>> ELSE InitTimesteps(cfg.num_train_timesteps)
    /\ sigmas_dtype' = "float32"
    /\ init_noise_sigma' = None
    /\ num_inference_steps' = None
    /\ derivatives' = <<>>
    /\ last' = NoCall
    /\ latents' = 0
    /\ run_pos' = None
    /\ step_calls' = 0
    /\ ret' = RetNone
    /\ UNCHANGED <<prog, hostVars, rng, loopVars, rtVars, pagVars>>

----------------------------------------------------------------------------
(* EulerAncestralDiscreteScheduler.set_timesteps                           *)

\* a linspace of one value too many
SetTimestepsLinspace_OneMore(n, m) ==
    [i \in 1..(m + 1) |-> <<Linspace(n - 1, 0, m + 1)[i], Den(m + 1)>>]

\* a linspace running upwards
SetTimestepsLinspace_Ascending(n, m) ==
    [i \in 1..m |-> <<Linspace(0, n - 1, m)[i], Den(m)>>]

\* integer timesteps with the stride num_train_timesteps // num_inference_steps
SetTimestepsLinspace_IntegerStride(n, m) ==
    [i \in 1..m |-> <<(m - i) * (n \div m), 1>>]

\* np.linspace(num_train_timesteps - 1, 0, num_inference_steps, dtype=float)
SetTimestepsLinspace(n, m) ==
    [i \in 1..m |-> <<Linspace(n - 1, 0, m)[i], Den(m)>>]

Floor(t) == t[1] \div t[2]
Ceil(t) == (t[1] + t[2] - 1) \div t[2]
\* np.mod(t, 1.0), as a numerator over t's denominator
Frac(t) == t[1] % t[2]

\* (1 - frac) * sigmas[low_idx] + frac * sigmas[high_idx]
InterpSigma(train, t) ==
    ((t[2] - Frac(t)) * train[Floor(t) + 1] + Frac(t) * train[Ceil(t) + 1]) \div t[2]

\* the sigmas are computed by the first set_timesteps only
SetTimestepsSigmas_Once(ac, ts) ==
    IF num_inference_steps # None THEN sigmas
    ELSE Append([i \in 1..Len(ts) |-> InterpSigma(TrainSigmas(ac), ts[i])], 0)

SetTimestepsSigmas(ac, ts) ==
    LET train == TrainSigmas(ac)
    IN  Append([i \in 1..Len(ts) |-> InterpSigma(train, ts[i])], 0)

\* the derivatives kept over a set_timesteps
SetTimestepsDerivatives_Kept(d) == d

\* self.derivatives = []
SetTimestepsDerivatives(d) == <<>>

\* the body of set_timesteps: what one call does to the scheduler
SetTimesteps(m) ==
    /\ num_inference_steps' = m
    /\ timesteps' = SetTimestepsLinspace(config.num_train_timesteps, m)
    /\ sigmas' = SetTimestepsSigmas(alphas_cumprod, timesteps')
    /\ sigmas_dtype' = "float32"
    /\ init_noise_sigma' = sigmas'[1]
    /\ derivatives' = SetTimestepsDerivatives(derivatives)
    /\ step_calls' = 0
    /\ UNCHANGED <<ctor, config, betas, alphas_cumprod>>

\* a pipeline draws its initial latents l and calls set_timesteps(m)
PipelineSetTimesteps(m, l) ==
    /\ prog \in {"sampler", "ops"}
    /\ SetTimesteps(m)
    /\ run_pos' = 0
    /\ latents' = l
    /\ last' = NoCall
    /\ ret' = [fn |-> "set_timesteps", value |-> None]
    /\ UNCHANGED <<prog, hostVars, rng, loopVars, rtVars, pagVars>>

----------------------------------------------------------------------------
(* EulerAncestralDiscreteScheduler.step                                    *)

ModelOutputs == {0, One}
\* the samples a caller starts from
Latents == {One}

\* torch.randn_like: the value the generator state g yields
Randn(g) == ((g % 3) - 1) * One

\* sigma_up with sigma_from where the code has the leading sigma_to
SigmaUp_FromFrom(sigma_from, sigma_to) ==
    FSqrt(FDiv(FMul(FMul(sigma_from, sigma_from),
                    FMul(sigma_from, sigma_from) - FMul(sigma_to, sigma_to)),
               FMul(sigma_from, sigma_from)))

SigmaUp(sigma_from, sigma_to) ==
    FSqrt(FDiv(FMul(FMul(sigma_to, sigma_to),
                    FMul(sigma_from, sigma_from) - FMul(sigma_to, sigma_to)),
               FMul(sigma_from, sigma_from)))

SigmaDown(sigma_to, sigma_up) ==
    FSqrt(FMul(sigma_to, sigma_to) - FMul(sigma_up, sigma_up))

Derivative(sigma, model_output, sample) ==
    LET pred_original_sample == sample - FMul(sigma, model_output)
    IN  FDiv(sample - pred_original_sample, sigma)

PrevSample(sig, step_index, model_output, sample, noise) ==
    LET sigma == sig[step_index + 1]
        sigma_to == sig[step_index + 2]
        sigma_up == SigmaUp(sigma, sigma_to)
        sigma_down == SigmaDown(sigma_to, sigma_up)
        dt == sigma_down - sigma
    IN  sample + FMul(Derivative(sigma, model_output, sample), dt) + FMul(noise, sigma_up)

\* derivatives keeps the latest derivative only
StepDerivatives_Latest(d, derivative) == <<derivative>>

\* self.derivatives.append(derivative)
StepDerivatives(d, derivative) == Append(d, derivative)

\* the tensor passed as sample after the call: step computes new tensors from it
\* (sample - sigma * model_output, sample + derivative * dt) and writes none into it
SampleAfterStep(sample, prev_sample) == sample

\* the body of step: what one call does to the scheduler and returns
Step(step_index, model_output, sample) ==
    /\ derivatives' = StepDerivatives(derivatives,
                                      Derivative(sigmas[step_index + 1], model_output, sample))
    /\ step_calls' = step_calls + 1
    /\ rng' = rng + 1
    /\ last' = [step_index |-> step_index, model_output |-> model_output, sample |-> sample,
                noise |-> Randn(rng),
                prev_sample |-> PrevSample(sigmas, step_index, model_output, sample, Randn(rng)),
                sample_after |->
                    SampleAfterStep(sample, PrevSample(sigmas, step_index, model_output, sample,
                                                       Randn(rng)))]
    /\ UNCHANGED <<ctor, config, betas, alphas_cumprod, sigmas, sigmas_dtype, init_noise_sigma,
                   num_inference_steps, timesteps>>

\* a sampling loop: the next step of the run, fed the sample the previous step returned
LoopStep(model_output) ==
    /\ prog \in {"sampler", "ops", "retrieve_run"}
    /\ rng < MaxDraws
    /\ run_pos # None
    /\ run_pos < num_inference_steps
    /\ Step(run_pos, model_output, latents)
    /\ latents' = last'.prev_sample
    /\ run_pos' = run_pos + 1
    /\ UNCHANGED <<prog, hostVars, ret, loopVars, rtVars, pagVars>>

\* a caller's step call outside a loop: any step index the sigmas allow
DirectStep(step_index, model_output, sample) ==
    /\ prog \in {"sampler", "ops"}
    /\ rng < MaxDraws
    /\ Step(step_index, model_output, sample)
    /\ run_pos' = None
    /\ UNCHANGED <<prog, hostVars, latents, ret, loopVars, rtVars, pagVars>>

----------------------------------------------------------------------------
(* EulerAncestralDiscreteScheduler.scale_model_input and add_noise         *)

\* sample / ((sigma**2 + 1) ** 0.5), sigma = sigmas[step_index]
ScaledSample(sig, sample, step_index) ==
    FDiv(sample, FSqrt(FMul(sig[step_index + 1], sig[step_index + 1]) + One))

\* scale_model_input reads the scheduler and changes nothing of it
ScaleModelInput(sample, step_index) ==
    /\ prog = "ops"
    /\ ret' = [fn |-> "scale_model_input", value |-> ScaledSample(sigmas, sample, step_index)]
    /\ UNCHANGED <<prog, hostVars, ctor, config, betas, alphas_cumprod, sigmas, sigmas_dtype,
                   init_noise_sigma, num_inference_steps, timesteps, derivatives, rng, last,
                   latents, run_pos, step_calls, loopVars, rtVars, pagVars>>

\* the dtypes of the samples handed to add_noise
Dtypes == {"float32", "float16"}

\* the distance between neighbouring float16 values around x, in thousandths:
\* 2 ** (e - 10) for x in [2 ** e, 2 ** (e + 1)), below the model's unit for x < 2.0
Float16Spacing(x) ==
    IF x < 2 * One THEN 1 ELSE IF x < 4 * One THEN 2 ELSE IF x < 8 * One THEN 4 ELSE 8

\* tensor.to(dtype=dtype) on one value
ToDtype(x, dtype) ==
    IF dtype = "float16" THEN (x \div Float16Spacing(x)) * Float16Spacing(x) ELSE x

\* a conversion that keeps one decimal of every sigma
AddNoiseSigmas_OneDecimal(sig, dtype) ==
    [i \in 1..Len(sig) |-> ((sig[i] + (One \div 10) - 1) \div (One \div 10)) * (One \div 10)]

\* self.sigmas.to(device=original_samples.device, dtype=original_samples.dtype)
AddNoiseSigmas(sig, dtype) == [i \in 1..Len(sig) |-> ToDtype(sig[i], dtype)]

\* add_noise(original_samples, noise, timesteps), the samples being of dtype dtype:
\* sigmas is reassigned to its conversion, then indexed by timesteps
AddNoise(original_samples, noise, ts, dtype) ==
    /\ prog = "ops"
    /\ sigmas' = AddNoiseSigmas(sigmas, dtype)
    /\ sigmas_dtype' = dtype
    /\ ret' = [fn |-> "add_noise", value |-> original_samples + FMul(noise, sigmas'[ts + 1])]
    /\ UNCHANGED <<prog, hostVars, ctor, config, betas, alphas_cumprod, init_noise_sigma,
                   num_inference_steps, timesteps, derivatives, rng, last, latents, run_pos,
                   step_calls,
                   loopVars, rtVars, pagVars>>

----------------------------------------------------------------------------
(* examples/diffuser/run_diffuser_value_guided.py: the diffusion loop      *)

\* num_train_timesteps of the script's scheduler
VgNumTrainTimesteps == 100

\* eta, the noise factor of the script
VgEta == One

\* scheduler.timesteps of the script's scheduler: every training timestep, descending
VgTimesteps == [i \in 1..VgNumTrainTimesteps |-> VgNumTrainTimesteps - i]

\* the values scheduler._get_variance returns
VgVariances == {One \div 10, One \div 2}

\* the values torch.randn yields
NoiseValues == {Randn(g) : g \in 0..2}

BoolInt(b) == IF b THEN 1 ELSE 0

\* int(i>0) * (0.5 * posterior_variance) * eta * noise
PosteriorNoise(i, posterior_variance, eta, noise) ==
    FMul(FMul(BoolInt(i > 0) * FMul(One \div 2, posterior_variance), eta), noise)

VgStart == [pos |-> 0, t |-> None, noise |-> 0, contribution |-> 0]

\* one iteration of the loop, step 3: add posterior noise to the reconstructed sample
VgIterate(posterior_variance, noise) ==
    /\ prog = "value_guided"
    /\ vg.pos < Len(VgTimesteps)
    /\ vg' = [pos |-> vg.pos + 1,
              t |-> VgTimesteps[vg.pos + 1],
              noise |-> noise,
              contribution |-> IF VgEta > 0
                               THEN PosteriorNoise(VgTimesteps[vg.pos + 1], posterior_variance,
                                                   VgEta, noise)
                               ELSE 0]
    /\ UNCHANGED <<prog, hostVars, schedVars, pipe, ip, rtVars, pagVars>>

----------------------------------------------------------------------------
(* The sampling loops of LDMPipeline.__call__ and                          *)
(* MeissonicInpaintPipeline.__call__.  The schedulers these pipelines hold *)
(* are not among the sources: of them the model keeps that set_timesteps(m)*)
(* selects m timesteps and that step returns a prev_sample.                *)

PipeKinds == {"ldm", "meissonic"}

\* strength, the share of the schedule MeissonicInpaintPipeline runs
Strengths == {0, One \div 4, One \div 2, (3 * One) \div 4, One}

\* the outputs of the unet and of the transformer
PipeModelOutputs == {0, 1}

\* scheduler.timesteps after scheduler.set_timesteps(m)
PipeSchedulerTimesteps(m) == [i \in 1..m |-> m - i]

\* scheduler.step(model_output, t, sample).prev_sample: a value that tells the
\* sample and the model output it was computed from
PipeSchedulerStep(model_output, t, sample) == 2 * sample + model_output

PipeIdle == [kind |-> "none", pc |-> "idle", strength |-> One, timesteps |-> <<>>, i |-> 0,
             initial |-> 0, latents |-> 0, calls |-> <<>>]

\* a call the pipeline makes on its scheduler
SchedulerCall(fn, idx, t, sample, prev_sample) ==
    [fn |-> fn, idx |-> idx, t |-> t, sample |-> sample, prev_sample |-> prev_sample]

\* int(len(self.scheduler.timesteps) * strength)
MeissonicNumInferenceSteps(len, strength) == (len * strength) \div One

\* a loop that starts at the first timestep whatever the strength
StartTimestepIdx_First(len, num_steps) == 0

\* start_timestep_idx = len(self.scheduler.timesteps) - num_inference_steps
StartTimestepIdx(len, num_steps) == len - num_steps

\* a loop that drops what step returned
LoopLatents_Kept(latents_before, prev_sample) == latents_before

\* latents = self.scheduler.step(...).prev_sample
LoopLatents(latents_before, prev_sample) == prev_sample

\* __call__ up to its loop: the initial latents l are prepared and set_timesteps is
\* called; MeissonicInpaintPipeline then chooses where in the schedule to start
PipeCall(kind, num_steps, strength, l) ==
    /\ prog = "pipeline"
    /\ pipe.pc \in {"idle", "done"}
    /\ pipe' = [kind |-> kind, pc |-> "loop", strength |-> strength,
                timesteps |-> PipeSchedulerTimesteps(num_steps),
                i |-> IF kind = "ldm" THEN 0
                      ELSE StartTimestepIdx(num_steps,
                                            MeissonicNumInferenceSteps(num_steps, strength)),
                initial |-> l, latents |-> l,
                calls |-> <<SchedulerCall("set_timesteps", None, num_steps, 0, 0)>>]
    /\ UNCHANGED <<prog, hostVars, schedVars, vg, ip, rtVars, pagVars>>

\* one iteration of the loop: the model predicts model_output from the latents,
\* scheduler.step is called and its prev_sample becomes the latents
PipeStep(model_output) ==
    /\ prog = "pipeline"
    /\ pipe.pc = "loop"
    /\ pipe.i < Len(pipe.timesteps)
    /\ LET t == pipe.timesteps[pipe.i + 1]
           prev_sample == PipeSchedulerStep(model_output, t, pipe.latents)
       IN  pipe' = [pipe EXCEPT !.i = @ + 1,
                                !.latents = LoopLatents(@, prev_sample),
                                !.calls = Append(@, SchedulerCall("step", pipe.i, t,
                                                                  pipe.latents, prev_sample))]
    /\ UNCHANGED <<prog, hostVars, schedVars, vg, ip, rtVars, pagVars>>

\* the loop is over: the latents are decoded and returned
PipeFinish ==
    /\ prog = "pipeline"
    /\ pipe.pc = "loop"
    /\ pipe.i >= Len(pipe.timesteps)
    /\ pipe' = [pipe EXCEPT !.pc = "done"]
    /\ UNCHANGED <<prog, hostVars, schedVars, vg, ip, rtVars, pagVars>>

----------------------------------------------------------------------------
(* _maybe_expand_scales_for_one_ip_adapter (loaders/ip_adapter_utils.py)   *)

\* a scale value: a number, a list of numbers, or a dict from names to scale values
EmptyDict == [k \in {} |-> 0]
Scalar(n) == [kind |-> "scalar", scalar |-> n, list |-> <<>>, dict |-> EmptyDict]
ScaleList(l) == [kind |-> "list", scalar |-> 0, list |-> l, dict |-> EmptyDict]
ScaleDict(d) == [kind |-> "dict", scalar |-> 0, list |-> <<>>, dict |-> d]

\* d[key] = value, and del d[key]
Put(d, key, value) == [k \in DOMAIN d \cup {key} |-> IF k = key THEN value ELSE d[k]]
Del(d, key) == [k \in DOMAIN d \ {key} |-> d[k]]

\* f"block_{i}"
BlockName(i) == "block_" \o ToString(i)

\* f"{updown}.{block}.{tf_idx}"
FriendlyName(updown, i, tf_idx) == updown \o "." \o BlockName(i) \o "." \o ToString(tf_idx)

\* the name _translate_into_actual_layer_name builds from the parts of a friendly name
ActualName(updown, i, tf_idx) ==
    updown \o "_blocks." \o ToString(i) \o ".attentions." \o ToString(tf_idx)

\* the block and transformer indices of the unets the model draws from
BlockIndices == 0..5
TransformerIndices == 0..2
Coordinates == {"down", "up"} \X BlockIndices \X TransformerIndices

\* _translate_into_actual_layer_name(name): name is split at its dots into
\* (updown, block, attn), which are rewritten and joined again
TranslateIntoActualLayerName(name) ==
    IF name = "mid" THEN "mid_block.attentions.0"
    ELSE LET c == CHOOSE c \in Coordinates : FriendlyName(c[1], c[2], c[3]) = name
         IN  ActualName(c[1], c[2], c[3])

\* the names f"block_{i}" of the blocks with transformer layers
BlockNames(blocks) == {BlockName(blocks[k]) : k \in 1..Len(blocks)}

\* scales[updown] after lines 111-116: 0 if missing, a number or list made a
\* dict with the same value for every block
DirectionDict(scales, updown, blocks) ==
    LET v == IF updown \in DOMAIN scales THEN scales[updown] ELSE Scalar(0)
    IN  IF v.kind # "dict" THEN [b \in BlockNames(blocks) |-> v] ELSE v.dict

\* scales[updown] after lines 119-125: a block that is missing gets 0, a number
\* becomes a list with one copy for every transformer of the block
BlockLists(dir, blocks, per_block) ==
    [b \in DOMAIN dir \cup BlockNames(blocks) |->
        LET v == IF b \in DOMAIN dir THEN dir[b] ELSE Scalar(0)
        IN  IF b \in BlockNames(blocks) /\ v.kind # "list"
            THEN ScaleList([j \in 1..per_block |-> v.scalar])
            ELSE v]

\* the assert of lines 127-128 fails for some block
WrongListLength(dir, blocks, per_block) ==
    \E b \in BlockNames(blocks) :
        b \in DOMAIN dir /\ dir[b].kind = "list" /\ Len(dir[b].list) # per_block

\* lines 131-134: the entries f"{updown}.{block}.{tf_idx}" of one direction
DirectionEntries(updown, lists, blocks) ==
    LET coords == {c \in Coordinates :
                      /\ c[1] = updown
                      /\ \E k \in 1..Len(blocks) : blocks[k] = c[2]
                      /\ c[3] < Len(lists[BlockName(c[2])].list)}
    IN  [name \in {FriendlyName(c[1], c[2], c[3]) : c \in coords} |->
            LET c == CHOOSE c \in coords : FriendlyName(c[1], c[2], c[3]) = name
            IN  Scalar(lists[BlockName(c[2])].list[c[3] + 1])]

\* one round of the loop of line 110 on the working copy of scales
ExpandDirection(scales, updown, blocks, per_block) ==
    LET dir == DirectionDict(scales, updown, blocks)
        lists == BlockLists(dir, blocks, per_block)
        entries == DirectionEntries(updown, lists, blocks)
        kept == Del(scales, updown)
    IN  [k \in DOMAIN kept \cup DOMAIN entries |->
            IF k \in DOMAIN entries THEN entries[k] ELSE kept[k]]

\* the working copy after lines 101-136
ExpandedScales(scales, blocks_with_transformer, transformer_per_block) ==
    LET top == IF scales.kind # "dict"
               THEN [k \in {"down", "mid", "up"} |-> scales]
               ELSE scales.dict
        with_mid == IF "mid" \in DOMAIN top THEN top ELSE Put(top, "mid", Scalar(0))
        after_up == ExpandDirection(with_mid, "up", blocks_with_transformer["up"],
                                    transformer_per_block["up"])
    IN  ExpandDirection(after_up, "down", blocks_with_transformer["down"],
                        transformer_per_block["down"])

\* some list of scales has not the length transformer_per_block asks for
AssertFails(scales, blocks_with_transformer, transformer_per_block) ==
    LET top == IF scales.kind # "dict"
               THEN [k \in {"down", "mid", "up"} |-> scales]
               ELSE scales.dict
    IN  \E updown \in {"up", "down"} :
            WrongListLength(DirectionDict(top, updown, blocks_with_transformer[updown]),
                            blocks_with_transformer[updown], transformer_per_block[updown])

\* how the call ends: lines 95-99, 127 and 138-142
ExpandOutcome(scales, blocks_with_transformer, transformer_per_block, state_dict) ==
    IF DOMAIN blocks_with_transformer # {"down", "up"} THEN "ValueError"
    ELSE IF DOMAIN transformer_per_block # {"down", "up"} THEN "ValueError"
    ELSE IF AssertFails(scales, blocks_with_transformer, transformer_per_block)
    THEN "AssertionError"
    ELSE IF \E layer \in DOMAIN ExpandedScales(scales, blocks_with_transformer,
                                                transformer_per_block) :
                TranslateIntoActualLayerName(layer) \notin state_dict
    THEN "ValueError"
    ELSE "returned"

\* line 144: the dict the call returns
ExpandResult(scales, blocks_with_transformer, transformer_per_block) ==
    LET expanded == ExpandedScales(scales, blocks_with_transformer, transformer_per_block)
    IN  [name \in {TranslateIntoActualLayerName(k) : k \in DOMAIN expanded} |->
            LET k == CHOOSE k \in DOMAIN expanded : TranslateIntoActualLayerName(k) = name
            IN  expanded[k].scalar]

IpNone == [scales |-> Scalar(0), blocks_with_transformer |-> EmptyDict,
           transformer_per_block |-> EmptyDict, state_dict |-> {}, outcome |-> "none",
           result |-> EmptyDict, scales_after |-> Scalar(0)]

\* _maybe_expand_scales_for_one_ip_adapter(scales, blocks_with_transformer,
\* transformer_per_block, state_dict), state_dict given as the attention layers its
\* keys name; the function works on a deep copy, the caller's scales stay as passed
ExpandScales(scales, blocks_with_transformer, transformer_per_block, state_dict) ==
    LET outcome == ExpandOutcome(scales, blocks_with_transformer, transformer_per_block,
                                 state_dict)
    IN  /\ prog = "ip_adapter"
        /\ ip' = [scales |-> scales, blocks_with_transformer |-> blocks_with_transformer,
                  transformer_per_block |-> transformer_per_block,
                  state_dict |-> state_dict, outcome |-> outcome,
                  result |-> IF outcome = "returned"
                             THEN ExpandResult(scales, blocks_with_transformer,
                                               transformer_per_block)
                             ELSE EmptyDict,
                  scales_after |-> scales]
        /\ UNCHANGED <<prog, hostVars, schedVars, vg, pipe, rtVars, pagVars>>

\* the arguments of the example in the docstring
ExampleScales ==
    ScaleDict("down" :> Scalar(2) @@ "mid" :> Scalar(3)
              @@ "up" :> ScaleDict("block_0" :> Scalar(4)
                                   @@ "block_1" :> ScaleList(<<5, 6, 7>>)))
ExampleBlocks == [down |-> <<1, 2>>, up |-> <<0, 1>>]
ExamplePerBlock == [down |-> 2, up |-> 3]

\* the arguments the model draws from
IpScales ==
    {ExampleScales, Scalar(1), ScaleDict(EmptyDict),
     ScaleDict("up" :> ScaleDict("block_1" :> Scalar(2))),
     ScaleDict("down" :> ScaleList(<<1, 2>>)),
     ScaleDict("up" :> ScaleDict("block_0" :> ScaleList(<<1, 2>>))),
     ScaleDict("mid" :> Scalar(5) @@ "up" :> ScaleDict("block_5" :> Scalar(9)))}
IpBlocks ==
    {ExampleBlocks, [down |-> <<0>>, up |-> <<2>>], [down |-> <<>>, up |-> <<0>>],
     [down |-> <<1>>]}
IpPerBlock == {ExamplePerBlock, [down |-> 1, up |-> 2]}

\* the attention layers of a unet with the given blocks
UnetAttentionLayers(blocks_with_transformer, transformer_per_block) ==
    {"mid_block.attentions.0"} \cup
    {ActualName(c[1], c[2], c[3]) :
        c \in {c \in Coordinates :
                  /\ c[1] \in DOMAIN blocks_with_transformer
                  /\ \E k \in 1..Len(blocks_with_transformer[c[1]]) :
                        blocks_with_transformer[c[1]][k] = c[2]
                  /\ c[3] < transformer_per_block[c[1]]}}

----------------------------------------------------------------------------
(* retrieve_timesteps (examples/community/pipeline_aura_flow_differential_img2img.py) *)

\* the set_timesteps signature of EulerAncestralDiscreteScheduler: (num_inference_steps, device)
EulerParams == [timesteps |-> FALSE, sigmas |-> FALSE]

RtNone == [num_inference_steps |-> None, timesteps |-> NotGiven, sigmas |-> NotGiven,
           outcome |-> "none", ret_timesteps |-> <<>>, ret_num_inference_steps |-> None]

\* scheduler.set_timesteps(timesteps=...), of a scheduler that accepts custom timesteps
CustomSetTimesteps(ts) ==
    /\ num_inference_steps' = Len(ts)
    /\ timesteps' = [i \in 1..Len(ts) |-> <<ts[i], 1>>]
    /\ derivatives' = <<>>
    /\ step_calls' = 0
    /\ UNCHANGED <<ctor, config, betas, alphas_cumprod, sigmas, sigmas_dtype, init_noise_sigma>>

\* scheduler.set_timesteps(sigmas=...), of a scheduler that accepts custom sigmas
CustomSetSigmas(sg) ==
    /\ num_inference_steps' = Len(sg)
    /\ sigmas' = Append(sg, 0)
    /\ sigmas_dtype' = "float32"
    /\ init_noise_sigma' = sigmas'[1]
    /\ timesteps' = [i \in 1..Len(sg) |-> <<Len(sg) - i, 1>>]
    /\ derivatives' = <<>>
    /\ step_calls' = 0
    /\ UNCHANGED <<ctor, config, betas, alphas_cumprod>>

\* a call that raises after it has reset the scheduler's derivatives
RtRaise_AfterSetTimesteps(nis, ts, sg, error) ==
    /\ rt' = [num_inference_steps |-> nis, timesteps |-> ts, sigmas |-> sg,
              outcome |-> error, ret_timesteps |-> <<>>, ret_num_inference_steps |-> None]
    /\ derivatives' = <<>>
    /\ UNCHANGED <<ctor, config, betas, alphas_cumprod, sigmas, sigmas_dtype, init_noise_sigma,
                   num_inference_steps, timesteps, run_pos, step_calls>>

\* the call raises error: nothing of the scheduler is touched
RtRaise(nis, ts, sg, error) ==
    /\ rt' = [num_inference_steps |-> nis, timesteps |-> ts, sigmas |-> sg,
              outcome |-> error, ret_timesteps |-> <<>>, ret_num_inference_steps |-> None]
    /\ UNCHANGED <<ctor, config, betas, alphas_cumprod, sigmas, sigmas_dtype, init_noise_sigma,
                   num_inference_steps, timesteps, derivatives, run_pos, step_calls>>

RtReturn(nis, ts, sg, ret_nis) ==
    /\ rt' = [num_inference_steps |-> nis, timesteps |-> ts, sigmas |-> sg,
              outcome |-> "returned", ret_timesteps |-> timesteps',
              ret_num_inference_steps |-> ret_nis]
    /\ run_pos' = 0

RetrieveTimesteps(nis, ts, sg) ==
    /\ prog \in {"retrieve", "retrieve_run"}
    /\ IF ts.given /\ sg.given
       THEN RtRaise(nis, ts, sg, "ValueError")
       ELSE IF ts.given
       THEN IF ~set_timesteps_params.timesteps
            THEN RtRaise(nis, ts, sg, "ValueError")
            ELSE CustomSetTimesteps(ts.value) /\ RtReturn(nis, ts, sg, Len(timesteps'))
       ELSE IF sg.given
       THEN IF ~set_timesteps_params.sigmas
            THEN RtRaise(nis, ts, sg, "ValueError")
            ELSE CustomSetSigmas(sg.value) /\ RtReturn(nis, ts, sg, Len(timesteps'))
       ELSE IF nis = None
       THEN \* np.linspace(..., None) raises after line 116 has stored None
            /\ rt' = [num_inference_steps |-> nis, timesteps |-> ts, sigmas |-> sg,
                      outcome |-> "TypeError", ret_timesteps |-> <<>>,
                      ret_num_inference_steps |-> None]
            /\ num_inference_steps' = None
            /\ UNCHANGED <<ctor, config, betas, alphas_cumprod, sigmas, sigmas_dtype,
                           init_noise_sigma, timesteps, derivatives, run_pos, step_calls>>
       ELSE SetTimesteps(nis) /\ RtReturn(nis, ts, sg, nis)
    /\ UNCHANGED <<prog, hostVars, rng, last, latents, ret, loopVars, set_timesteps_params, pagVars>>

\* the lists a caller passes as timesteps, as sigmas
CustomTimesteps == {<<1, 0>>, <<2, 1, 0>>}
CustomSigmas == {<<One>>, <<One, One \div 2>>}

----------------------------------------------------------------------------
(* The guidance combiners: PAGMixin and MeissonicInpaintPipeline.__call__  *)

\* _get_self_attn_layers: how many self-attention layers (attn1) the unet has
\* in its down, mid and up blocks
UnetLayers == [down |-> 2, mid |-> 1, up |-> 1]

LayerTypes == {"down", "mid", "up"}

\* the processors enable_pag installs
PagProcessors == {"PAGCFGIdentitySelfAttnProcessor2_0", "PAGIdentitySelfAttnProcessor2_0"}

\* every self-attention layer of the unet holding processor p
InitProcessors(p) == [ty \in LayerTypes |-> [i \in 1..UnetLayers[ty] |-> p]]

\* a pipeline object on which enable_pag was never called: PAGMixin has no
\* constructor and no class attribute, so none of the _pag attributes exists
PagUnset == [has_attrs |-> FALSE, is_pag_enabled |-> FALSE, pag_scale |-> None,
             pag_adaptive_scaling |-> None, pag_applied_layers |-> <<>>,
             pag_applied_layers_index |-> <<>>, pag_cfg |-> FALSE]

\* the settings disable_pag leaves: every one None (an empty tuple and a false
\* pag_cfg stand for None, the code only tests them for truth), _is_pag_enabled False
PagDisabled == [has_attrs |-> TRUE, is_pag_enabled |-> FALSE, pag_scale |-> None,
                pag_adaptive_scaling |-> None, pag_applied_layers |-> <<>>,
                pag_applied_layers_index |-> <<>>, pag_cfg |-> FALSE]

PagCallNone == [fn |-> "none", outcome |-> "none"]

GuideNone == [fn |-> "none", cfg |-> FALSE, guidance_scale |-> 0, pag_scale |-> 0,
              uncond |-> 0, cond |-> 0, perturb |-> 0, result |-> 0,
              t |-> 0, set_scale |-> 0, set_adaptive_scaling |-> 0]

\* the block type a layer index such as "d4" names by its first character
PrefixType(prefix) ==
    IF prefix = "d" THEN "down" ELSE IF prefix = "m" THEN "mid" ELSE "up"

\* <layers>[layer_number].processor = p
SetLayer(procs, ty, layer_number, p) ==
    [procs EXCEPT ![ty] = [@ EXCEPT ![layer_number + 1] = p]]

\* for layer in <layers>: layer.processor = p
SetAllLayers(procs, ty, p) ==
    [procs EXCEPT ![ty] = [i \in 1..Len(@) |-> p]]

RECURSIVE ApplyLayersIndex(_, _, _, _)
\* the loop over pag_applied_layers_index from its position i: the processors
\* it leaves, and whether it returned or raised
ApplyLayersIndex(procs, drop_layers, i, p) ==
    IF i > Len(drop_layers) THEN [processors |-> procs, outcome |-> "returned"]
    ELSE LET drop_layer == drop_layers[i]
         IN  IF drop_layer.prefix \notin {"d", "m", "u"}
             THEN [processors |-> procs, outcome |-> "ValueError"]
             ELSE IF drop_layer.number >= Len(procs[PrefixType(drop_layer.prefix)])
             THEN [processors |-> procs, outcome |-> "ValueError"]
             ELSE ApplyLayersIndex(SetLayer(procs, PrefixType(drop_layer.prefix),
                                            drop_layer.number, p),
                                   drop_layers, i + 1, p)

RECURSIVE ApplyLayers(_, _, _, _)
\* the loop over pag_applied_layers from its position i
ApplyLayers(procs, drop_full_layers, i, p) ==
    IF i > Len(drop_full_layers) THEN [processors |-> procs, outcome |-> "returned"]
    ELSE IF drop_full_layers[i] \notin LayerTypes
    THEN [processors |-> procs, outcome |-> "ValueError"]
    ELSE ApplyLayers(SetAllLayers(procs, drop_full_layers[i], p), drop_full_layers, i + 1, p)

\* the two loops _set_pag_attn_processor and disable_pag share: processor p is
\* put on the layers the settings name
SetPagAttnProcessor(procs, settings, p) ==
    IF settings.pag_applied_layers_index # <<>>
    THEN ApplyLayersIndex(procs, settings.pag_applied_layers_index, 1, p)
    ELSE IF settings.pag_applied_layers # <<>>
    THEN ApplyLayers(procs, settings.pag_applied_layers, 1, p)
    ELSE [processors |-> procs, outcome |-> "returned"]

\* enable_pag: the settings are stored, then the processors are replaced
EnablePag(pag_scale, pag_adaptive_scaling, pag_applied_layers, pag_applied_layers_index, pag_cfg) ==
    LET settings == [has_attrs |-> TRUE, is_pag_enabled |-> TRUE, pag_scale |-> pag_scale,
                     pag_adaptive_scaling |-> pag_adaptive_scaling,
                     pag_applied_layers |-> pag_applied_layers,
                     pag_applied_layers_index |-> pag_applied_layers_index,
                     pag_cfg |-> pag_cfg]
        replaced == SetPagAttnProcessor(processors, settings,
                                        IF pag_cfg THEN "PAGCFGIdentitySelfAttnProcessor2_0"
                                        ELSE "PAGIdentitySelfAttnProcessor2_0")
    IN  /\ prog \in {"guidance", "pag"}
        /\ pag' = settings
        /\ processors' = replaced.processors
        /\ pag_call' = [fn |-> "enable_pag", outcome |-> replaced.outcome]
        /\ UNCHANGED <<prog, hostVars, schedVars, loopVars, rtVars, guide>>

\* disable_pag
DisablePag ==
    /\ prog = "pag"
    /\ IF ~pag.has_attrs
       THEN \* do_perturbed_attention_guidance reads self._is_pag_enabled, which does not exist
            /\ pag_call' = [fn |-> "disable_pag", outcome |-> "AttributeError"]
            /\ UNCHANGED <<pag, processors>>
       ELSE IF ~pag.is_pag_enabled
       THEN /\ pag_call' = [fn |-> "disable_pag", outcome |-> "ValueError"]
            /\ UNCHANGED <<pag, processors>>
       ELSE LET restored == SetPagAttnProcessor(processors, pag, "AttnProcessor2_0")
            IN  /\ processors' = restored.processors
                /\ pag_call' = [fn |-> "disable_pag", outcome |-> restored.outcome]
                /\ pag' = IF restored.outcome = "returned" THEN PagDisabled ELSE pag
    /\ UNCHANGED <<prog, hostVars, schedVars, loopVars, rtVars, guide>>

\* _get_pag_scale(t)
GetPagScale(t) ==
    IF pag.pag_adaptive_scaling > 0
    THEN LET signal_scale == pag.pag_scale - pag.pag_adaptive_scaling * (1000 - t)
         IN  IF signal_scale < 0 THEN 0 ELSE signal_scale
    ELSE pag.pag_scale

\* the combination without the conditional branch's reference to the unconditional one
CombinePag_NoBaseline(chunks, do_classifier_free_guidance, guidance_scale, pag_scale) ==
    IF do_classifier_free_guidance
    THEN chunks[1] + FMul(guidance_scale, chunks[2]) + FMul(pag_scale, chunks[2] - chunks[3])
    ELSE chunks[1] + FMul(pag_scale, chunks[1] - chunks[2])

\* the combination with the PAG term taken from the unconditional branch in both cases
CombinePag_UncondTerm(chunks, do_classifier_free_guidance, guidance_scale, pag_scale) ==
    IF do_classifier_free_guidance
    THEN chunks[1] + FMul(guidance_scale, chunks[2] - chunks[1])
                   + FMul(pag_scale, chunks[1] - chunks[3])
    ELSE chunks[1] + FMul(pag_scale, chunks[1] - chunks[2])

\* the combination reading the chunks in the order (unconditional, perturbed, text)
CombinePag_PerturbedSecond(chunks, do_classifier_free_guidance, guidance_scale, pag_scale) ==
    IF do_classifier_free_guidance
    THEN chunks[1] + FMul(guidance_scale, chunks[3] - chunks[1])
                   + FMul(pag_scale, chunks[3] - chunks[2])
    ELSE chunks[1] + FMul(pag_scale, chunks[1] - chunks[2])

\* the combination of the chunks of noise_pred
CombinePag(chunks, do_classifier_free_guidance, guidance_scale, pag_scale) ==
    IF do_classifier_free_guidance
    THEN chunks[1] + FMul(guidance_scale, chunks[2] - chunks[1])
                   + FMul(pag_scale, chunks[2] - chunks[3])
    ELSE chunks[1] + FMul(pag_scale, chunks[1] - chunks[2])

\* _apply_perturbed_attention_guidance(noise_pred, do_classifier_free_guidance, guidance_scale, t):
\* noise_pred holds the chunks (uncond, text, perturb), or (uncond, perturb)
ApplyPerturbedAttentionGuidance(noise_pred, do_classifier_free_guidance, guidance_scale, t) ==
    /\ prog = "guidance"
    /\ pag.is_pag_enabled
    /\ Len(noise_pred) = IF do_classifier_free_guidance THEN 3 ELSE 2
    /\ guide' = [fn |-> "pag", cfg |-> do_classifier_free_guidance,
                 guidance_scale |-> guidance_scale, pag_scale |-> GetPagScale(t),
                 uncond |-> noise_pred[1],
                 cond |-> IF do_classifier_free_guidance THEN noise_pred[2] ELSE noise_pred[1],
                 perturb |-> noise_pred[Len(noise_pred)],
                 result |-> CombinePag(noise_pred, do_classifier_free_guidance,
                                       guidance_scale, GetPagScale(t)),
                 t |-> t, set_scale |-> pag.pag_scale,
                 set_adaptive_scaling |-> pag.pag_adaptive_scaling]
    /\ UNCHANGED <<prog, hostVars, schedVars, loopVars, rtVars, pag, processors, pag_call>>

\* the guidance step of MeissonicInpaintPipeline.__call__: uncond_logits and cond_logits
\* are the transformer's outputs for the negative and for the positive prompt; the
\* negative prompt is run only when guidance_scale > 1.0
MeissonicModelOutput(guidance_scale, uncond_logits, cond_logits) ==
    IF guidance_scale > One
    THEN uncond_logits + FMul(guidance_scale, cond_logits - uncond_logits)
    ELSE cond_logits

MeissonicGuidance(guidance_scale, uncond_logits, cond_logits) ==
    /\ prog = "guidance"
    /\ guide' = [fn |-> "meissonic", cfg |-> guidance_scale > One,
                 guidance_scale |-> guidance_scale, pag_scale |-> 0,
                 uncond |-> uncond_logits, cond |-> cond_logits, perturb |-> cond_logits,
                 result |-> MeissonicModelOutput(guidance_scale, uncond_logits, cond_logits),
                 t |-> 0, set_scale |-> 0, set_adaptive_scaling |-> 0]
    /\ UNCHANGED <<prog, hostVars, schedVars, loopVars, rtVars, pag, processors, pag_call>>

\* the inputs the model draws from
Branches == {0, One, 2 * One}
GuidanceScales == {0, One, One + One \div 2}
PagScales == {0, One, 3 * One}
PagAdaptiveScalings == {0, One \div 500}
GuidanceTimesteps == {1, 999}

\* the layer arguments of enable_pag the model draws from: valid ones, an unknown
\* block name, an unknown prefix, an index past the last layer
PagAppliedLayers == {<<>>, <<"mid">>, <<"down", "up">>, <<"down", "bogus">>}
LayerIndex(prefix, number) == [prefix |-> prefix, number |-> number]
PagAppliedLayersIndex ==
    {<<>>, <<LayerIndex("d", 1)>>, <<LayerIndex("m", 0), LayerIndex("u", 1)>>,
     <<LayerIndex("d", 0), LayerIndex("x", 0)>>}
\* the processors a unet holds before any PAG call
OriginalProcessors == {"AttnProcessor2_0", "AttnProcessor"}

----------------------------------------------------------------------------
(* examples/community/semantic_image_synthesis/train_vae_ldm.py: the       *)
(* checkpoints the training loop of the main process keeps in project_dir. *)
(* A directory checkpoint-<n> is the number n.                             *)

CkptIdle == [dirs |-> {}, checkpointing_total_limit |-> 0, checkpointing_steps |-> 1,
             max_train_steps |-> 0, num_update_steps_per_epoch |-> 1, epoch |-> 0, step |-> 0,
             global_step |-> 0, saved |-> FALSE, before |-> {}, removing_checkpoints |-> {}]

\* math.ceil(max_train_steps / num_update_steps_per_epoch)
NumTrainEpochs(max_train_steps, num_update_steps_per_epoch) ==
    (max_train_steps + num_update_steps_per_epoch - 1) \div num_update_steps_per_epoch

\* checkpoints[0:num_to_remove] of the checkpoints sorted by their number
RemovingCheckpoints(checkpoints, checkpointing_total_limit) ==
    IF Cardinality(checkpoints) >= checkpointing_total_limit
    THEN LET num_to_remove == Cardinality(checkpoints) - checkpointing_total_limit + 1
         IN  {d \in checkpoints : Cardinality({e \in checkpoints : e < d}) < num_to_remove}
    ELSE {}

\* the checkpoints in project_dir after the rotation and accelerator.save_state
SaveCheckpoint(checkpoints, checkpointing_total_limit, global_step) ==
    (checkpoints \ RemovingCheckpoints(checkpoints, checkpointing_total_limit))
        \cup {global_step}

\* one batch on which the accelerator performs an optimization step
TrainBatch ==
    LET global_step == ckpt.global_step + 1
        saves == global_step % ckpt.checkpointing_steps = 0
        ends == \/ global_step >= ckpt.max_train_steps
                \/ ckpt.step + 1 >= ckpt.num_update_steps_per_epoch
    IN  /\ prog = "train"
        /\ ckpt.epoch < NumTrainEpochs(ckpt.max_train_steps, ckpt.num_update_steps_per_epoch)
        /\ ckpt' = [ckpt EXCEPT
                !.global_step = global_step,
                !.epoch = IF ends THEN @ + 1 ELSE @,
                !.step = IF ends THEN 0 ELSE @ + 1,
                !.saved = saves,
                !.before = ckpt.dirs,
                !.removing_checkpoints =
                    IF saves THEN RemovingCheckpoints(ckpt.dirs, ckpt.checkpointing_total_limit)
                    ELSE {},
                !.dirs = IF saves
                         THEN SaveCheckpoint(@, ckpt.checkpointing_total_limit, global_step)
                         ELSE @]
        /\ UNCHANGED <<prog, cache, fuse, schedVars, loopVars, rtVars, pagVars>>

\* --checkpointing_total_limit, --checkpointing_steps, the length of an epoch and the
\* checkpoints project_dir holds when the training starts
TotalLimits == 0..3
CheckpointingSteps == {1, 2}
UpdateStepsPerEpoch == {1, 2, 3}
ExistingCheckpoints == SUBSET {1, 2, 7}

----------------------------------------------------------------------------
(* src/diffusers/utils/hub_utils.py: the migration of the old cache.       *)

\* the names an entry of a cache directory can have
CacheNames == {"a", "b"}

\* an entry of a cache directory: nothing, a plain file or a directory; origin tells
\* in which cache it was at the start, inside which directories were moved into it
Absent == [kind |-> "absent", origin |-> "none", inside |-> {}]
CacheEntry(kind, origin) == [kind |-> kind, origin |-> origin, inside |-> {}]

\* the calls not made yet
CacheCallNone == [fn |-> "none", old_before |-> [n \in CacheNames |-> Absent],
                  new_before |-> [n \in CacheNames |-> Absent], version_before |-> None,
                  writable |-> FALSE, moved |-> FALSE, raised |-> "none",
                  propagated |-> "none", written |-> FALSE]

CacheIdle == [old_exists |-> FALSE, old |-> [n \in CacheNames |-> Absent],
              new |-> [n \in CacheNames |-> Absent], version_file |-> None, imports |-> 0,
              auto_moves |-> 0, call |-> CacheCallNone]

\* shutil.move(os.path.join(old_cache_dir, file), os.path.join(new_cache_dir, file)) for
\* a directory: renamed when nothing has the name in the new cache, moved into the
\* directory that has the name, an error when a plain file has the name, when the
\* directory that has the name already holds an entry of the name, or when the new
\* cache cannot be written
ShutilMove(fs, file, writable) ==
    IF ~writable THEN [fs EXCEPT !.raised = "PermissionError"]
    ELSE IF fs.new[file].kind = "absent"
    THEN [fs EXCEPT !.new[file] = fs.old[file], !.old[file] = Absent]
    ELSE IF fs.new[file].kind = "dir"
    THEN IF file \in fs.new[file].inside
         THEN [fs EXCEPT !.raised = "Error"]
         ELSE [fs EXCEPT !.new[file].inside = @ \cup {file}, !.old[file] = Absent]
    ELSE [fs EXCEPT !.raised = "FileExistsError"]

\* one round of the loop of move_cache: directories only; a directory whose name is
\* a directory of the new cache gets a warning, and is moved like every other
MoveOne(fs, file, writable) ==
    IF fs.old[file].kind = "dir" THEN ShutilMove(fs, file, writable) ELSE fs

\* the loop of move_cache over os.listdir(old_cache_dir), which lists in any order;
\* an exception ends it
RECURSIVE MoveLoop(_, _, _)
MoveLoop(fs, listing, writable) ==
    IF listing = <<>> \/ fs.raised # "none" THEN fs
    ELSE MoveLoop(MoveOne(fs, Head(listing), writable), Tail(listing), writable)

\* the orders os.listdir can list the entries of the old cache in
Listings(old) ==
    LET names == {n \in CacheNames : old[n].kind # "absent"}
    IN  {l \in UNION {[1..k -> names] : k \in 0..Cardinality(CacheNames)} :
            /\ Len(l) = Cardinality(names)
            /\ \A i, j \in 1..Len(l) : i # j => l[i] # l[j]}

\* move_cache(): what it leaves of the two caches, and the exception it ends with
MoveCacheResult(c, listing, writable) ==
    IF ~c.old_exists
    THEN [old |-> c.old, new |-> c.new, raised |-> "FileNotFoundError"]
    ELSE MoveLoop([old |-> c.old, new |-> c.new, raised |-> "none"], listing, writable)

\* a call of diffusers.utils.hub_utils.move_cache() by the user
MoveCache(listing, writable) ==
    LET res == MoveCacheResult(cache, listing, writable)
    IN  /\ prog = "cache"
        /\ cache' = [cache EXCEPT
                !.old = res.old, !.new = res.new,
                !.call = [fn |-> "move_cache", old_before |-> cache.old,
                          new_before |-> cache.new, version_before |-> cache.version_file,
                          writable |-> writable, moved |-> TRUE, raised |-> res.raised,
                          propagated |-> res.raised, written |-> FALSE]]
        /\ UNCHANGED <<prog, ckpt, fuse, schedVars, loopVars, rtVars, pagVars>>

\* cache_version as the module reads it
CacheVersion(version_file) == IF version_file = None THEN 0 ELSE version_file

\* old_cache_is_not_empty
OldCacheIsNotEmpty(c) == c.old_exists /\ \E n \in CacheNames : c.old[n].kind # "absent"

\* the migration runs on this import
AutoMoves(c) == CacheVersion(c.version_file) < 1 /\ OldCacheIsNotEmpty(c)

\* the version file after the import; the write is tried whatever move_cache did
VersionFileAfter_UnlessRaised(version_file, raised, writable) ==
    IF CacheVersion(version_file) < 1 /\ writable /\ raised = "none" THEN 1 ELSE version_file

VersionFileAfter(version_file, raised, writable) ==
    IF CacheVersion(version_file) < 1 /\ writable THEN 1 ELSE version_file

\* an import of the module: the module-level code of the cache migration
ImportModule(listing, writable) ==
    LET moves == AutoMoves(cache)
        res == IF moves THEN MoveCacheResult(cache, listing, writable)
               ELSE [old |-> cache.old, new |-> cache.new, raised |-> "none"]
        version_file == VersionFileAfter(cache.version_file, res.raised, writable)
    IN  /\ prog = "cache"
        /\ cache.imports < MaxImports
        /\ cache' = [cache EXCEPT
                !.old = res.old, !.new = res.new,
                !.version_file = version_file,
                !.imports = @ + 1,
                !.auto_moves = IF moves THEN @ + 1 ELSE @,
                !.call = [fn |-> "import", old_before |-> cache.old,
                          new_before |-> cache.new, version_before |-> cache.version_file,
                          writable |-> writable, moved |-> moves, raised |-> res.raised,
                          propagated |-> "none",
                          written |-> version_file # cache.version_file]]
        /\ UNCHANGED <<prog, ckpt, fuse, schedVars, loopVars, rtVars, pagVars>>

\* the caches the model starts from: every name is free, a plain file or a directory
OldCaches == [CacheNames -> {Absent, CacheEntry("file", "old"), CacheEntry("dir", "old")}]
NewCaches ==
    {new \in [CacheNames -> {Absent, CacheEntry("file", "new"), CacheEntry("dir", "new")}
                             \cup {[CacheEntry("dir", "new") EXCEPT !.inside = {n}] :
                                      n \in CacheNames}] :
        \A n \in CacheNames : new[n].inside \subseteq {n}}
VersionFiles == {None, 1}

----------------------------------------------------------------------------
(* src/diffusers/models/transformers/cogvideox_transformer_3d.py           *)

\* the attention layers of the transformer and the key each has in attn_processors
AttnLayers == {"transformer_blocks.0.attn1", "transformer_blocks.1.attn1"}
ProcessorKey(name) == name \o ".processor"
LayerOfKey(key) == CHOOSE name \in AttnLayers : ProcessorKey(name) = key

\* the processor classes; CogVideoXBlock constructs its attention with the first
AttnProcessorClasses ==
    {"CogVideoXAttnProcessor2_0", "FusedCogVideoXAttnProcessor2_0", "AttnAddedKVProcessor2_0"}

\* "Added" in str(attn_processor.__class__.__name__)
HasAdded(class) == class = "AttnAddedKVProcessor2_0"

\* self.original_attn_processors: no such attribute, None, or a dict
OriginalUnset == [state |-> "unset", dict |-> EmptyDict]
OriginalNone == [state |-> "None", dict |-> EmptyDict]
OriginalDict(d) == [state |-> "dict", dict |-> d]

\* the attn_processors property: a new dict from key to processor
AttnProcessorsDict(layer_processors) ==
    [key \in {ProcessorKey(name) : name \in AttnLayers} |-> layer_processors[LayerOfKey(key)]]

\* Attention.set_processor and Attention.get_processor: the layer's processor is
\* replaced, and read
SetProcessor(layer_processors, name, processor) == [layer_processors EXCEPT ![name] = processor]
GetProcessor(layer_processors, name) == layer_processors[name]

\* an argument of set_attn_processor: one processor for all layers, or a dict
OneProcessor(class) == [is_dict |-> FALSE, class |-> class, dict |-> EmptyDict]
ProcessorDict(d) == [is_dict |-> TRUE, class |-> "none", dict |-> d]

\* the dict passed to set_attn_processor after the call: every layer pops its entry
SetAttnProcessorDictAfter(processor, raises) ==
    IF raises THEN processor.dict
    ELSE [key \in DOMAIN processor.dict \ {ProcessorKey(name) : name \in AttnLayers} |->
            processor.dict[key]]

\* set_attn_processor(processor): the layers' processors, the dict passed as it is
\* after the call, and the exception; the dicts of the model have keys of
\* attn_processors only, so that a dict of the right length has every key
SetAttnProcessor(layer_processors, processor) ==
    LET count == Cardinality(DOMAIN AttnProcessorsDict(layer_processors))
        raises == processor.is_dict /\ Cardinality(DOMAIN processor.dict) # count
    IN  [processors |->
            IF raises THEN layer_processors
            ELSE [name \in AttnLayers |->
                    IF processor.is_dict THEN processor.dict[ProcessorKey(name)]
                    ELSE processor.class],
         dict |-> SetAttnProcessorDictAfter(processor, raises),
         raised |-> IF raises THEN "ValueError" ELSE "none"]

FuseCallNone == [fn |-> "none", outcome |-> "none",
                 before |-> [name \in AttnLayers |-> "CogVideoXAttnProcessor2_0"]]

\* the constructed transformer
FuseIdle == [processors |-> [name \in AttnLayers |-> "CogVideoXAttnProcessor2_0"],
             original_attn_processors |-> OriginalUnset, fused_projections |-> FALSE,
             prefuse |-> [name \in AttnLayers |-> "CogVideoXAttnProcessor2_0"],
             unfuses |-> None, call |-> FuseCallNone]

\* a call of set_attn_processor by the user
SetAttnProcessorCall(processor) ==
    LET res == SetAttnProcessor(fuse.processors, processor)
    IN  /\ prog = "fuse"
        /\ fuse' = [fuse EXCEPT
                !.processors = res.processors,
                !.unfuses = None,
                !.call = [fn |-> "set_attn_processor",
                          outcome |-> IF res.raised = "none" THEN "returned" ELSE res.raised,
                          before |-> fuse.processors]]
        /\ UNCHANGED <<prog, ckpt, cache, schedVars, loopVars, rtVars, pagVars>>

\* fuse_qkv_projections
FuseQkvProjections ==
    LET added == \E name \in AttnLayers : HasAdded(GetProcessor(fuse.processors, name))
        res == SetAttnProcessor(fuse.processors, OneProcessor("FusedCogVideoXAttnProcessor2_0"))
    IN  /\ prog = "fuse"
        /\ fuse' = IF added
                    THEN [fuse EXCEPT
                            !.original_attn_processors = OriginalNone,
                            !.unfuses = None,
                            !.call = [fn |-> "fuse_qkv_projections", outcome |-> "ValueError",
                                      before |-> fuse.processors]]
                    ELSE [fuse EXCEPT
                            !.original_attn_processors =
                                OriginalDict(AttnProcessorsDict(fuse.processors)),
                            !.fused_projections = TRUE,
                            !.processors = res.processors,
                            !.prefuse = fuse.processors,
                            !.unfuses = 0,
                            !.call = [fn |-> "fuse_qkv_projections", outcome |-> "returned",
                                      before |-> fuse.processors]]
        /\ UNCHANGED <<prog, ckpt, cache, schedVars, loopVars, rtVars, pagVars>>

\* unfuse_qkv_projections: original_attn_processors is the dict set_attn_processor
\* is given, and is left as set_attn_processor leaves it
UnfuseQkvProjections ==
    LET original == fuse.original_attn_processors
        res == SetAttnProcessor(fuse.processors, ProcessorDict(original.dict))
        outcome == IF original.state = "unset" THEN "AttributeError"
                   ELSE IF original.state = "None" \/ res.raised = "none" THEN "returned"
                   ELSE res.raised
    IN  /\ prog = "fuse"
        /\ fuse.unfuses < MaxUnfuses
        /\ fuse' = [fuse EXCEPT
                !.processors = IF original.state = "dict" THEN res.processors ELSE @,
                !.original_attn_processors =
                    IF original.state = "dict" THEN OriginalDict(res.dict) ELSE @,
                !.unfuses = IF @ = None THEN None ELSE @ + 1,
                !.call = [fn |-> "unfuse_qkv_projections", outcome |-> outcome,
                          before |-> fuse.processors]]
        /\ UNCHANGED <<prog, ckpt, cache, schedVars, loopVars, rtVars, pagVars>>

\* the arguments the user calls set_attn_processor with
SetAttnProcessorArgs ==
    {OneProcessor(class) : class \in AttnProcessorClasses}
        \cup {ProcessorDict(AttnProcessorsDict(layer_processors)) :
                layer_processors \in [AttnLayers -> AttnProcessorClasses]}
        \cup {ProcessorDict(EmptyDict)}

\* the programs that do not use a scheduler have not started
HostIdle == ckpt = CkptIdle /\ cache = CacheIdle /\ fuse = FuseIdle

----------------------------------------------------------------------------
\* a pipeline object before any PAG call, every layer of its unet holding processor p
PagStart(p) ==
    /\ pag = PagUnset
    /\ processors = InitProcessors(p)
    /\ pag_call = PagCallNone
    /\ guide = GuideNone

\* the scheduler a program that does not sample holds
FixedConfig ==
    CHOOSE cfg \in Configs : cfg.num_train_timesteps = 1 /\ cfg.beta_schedule = "linear"

InitSampler ==
    /\ prog = "sampler"
    /\ \E cfg \in Configs : SchedulerInit(cfg)
    /\ vg = VgStart
    /\ pipe = PipeIdle
    /\ ip = IpNone
    /\ HostIdle
    /\ set_timesteps_params = EulerParams
    /\ rt = RtNone
    /\ PagStart("AttnProcessor2_0")

\* the example script runs with a scheduler of its own
InitValueGuided ==
    /\ prog = "value_guided"
    /\ SchedulerInit(FixedConfig)
    /\ vg = VgStart
    /\ pipe = PipeIdle
    /\ ip = IpNone
    /\ HostIdle
    /\ set_timesteps_params = EulerParams
    /\ rt = RtNone
    /\ PagStart("AttnProcessor2_0")

Init == InitSampler \/ InitValueGuided

Next ==
    \/ \E m \in 1..config.num_train_timesteps, l \in Latents :
          PipelineSetTimesteps(m, l)
    \/ \E mo \in ModelOutputs : LoopStep(mo)
    \/ \E i \in 0..(Len(sigmas) - 2), mo \in ModelOutputs, s \in Latents :
          DirectStep(i, mo, s)
    \/ \E pv \in VgVariances, n \in NoiseValues : VgIterate(pv, n)

Spec == Init /\ [][Next]_vars

\* retrieve_timesteps, called on a scheduler whose set_timesteps has the given parameters
InitRetrieve ==
    /\ prog = "retrieve"
    /\ \E cfg \in Configs : SchedulerInit(cfg)
    /\ vg = VgStart
    /\ pipe = PipeIdle
    /\ ip = IpNone
    /\ HostIdle
    /\ set_timesteps_params \in [timesteps : BOOLEAN, sigmas : BOOLEAN]
    /\ rt = RtNone
    /\ PagStart("AttnProcessor2_0")

NextRetrieve ==
       \E nis \in {None} \cup 1..config.num_train_timesteps,
          ts \in {NotGiven} \cup {Given(v) : v \in CustomTimesteps},
          sg \in {NotGiven} \cup {Given(v) : v \in CustomSigmas} :
            RetrieveTimesteps(nis, ts, sg)

SpecRetrieve == InitRetrieve /\ [][NextRetrieve]_vars

\* retrieve_timesteps and the steps of a sampling loop, on an
\* EulerAncestralDiscreteScheduler
InitRetrieveRun ==
    /\ prog = "retrieve_run"
    /\ \E cfg \in Configs : cfg.beta_schedule = "linear" /\ SchedulerInit(cfg)
    /\ vg = VgStart
    /\ pipe = PipeIdle
    /\ ip = IpNone
    /\ HostIdle
    /\ set_timesteps_params = EulerParams
    /\ rt = RtNone
    /\ PagStart("AttnProcessor2_0")

NextRetrieveRun ==
    \/ \E nis \in {None, config.num_train_timesteps},
          ts \in {NotGiven, Given(<<1, 0>>)}, sg \in {NotGiven, Given(<<One>>)} :
            RetrieveTimesteps(nis, ts, sg)
    \/ LoopStep(One)

SpecRetrieveRun == InitRetrieveRun /\ [][NextRetrieveRun]_vars

\* the guidance combiners
InitGuidance ==
    /\ prog = "guidance"
    /\ SchedulerInit(FixedConfig)
    /\ vg = VgStart
    /\ pipe = PipeIdle
    /\ ip = IpNone
    /\ HostIdle
    /\ set_timesteps_params = EulerParams
    /\ rt = RtNone
    /\ PagStart("AttnProcessor2_0")

NextGuidance ==
    \/ \E ps \in PagScales, pa \in PagAdaptiveScalings :
          EnablePag(ps, pa, <<"mid">>, <<>>, TRUE)
    \/ \E u \in Branches, c \in Branches, p \in Branches, g \in GuidanceScales,
          t \in GuidanceTimesteps :
            ApplyPerturbedAttentionGuidance(<<u, c, p>>, TRUE, g, t)
    \/ \E u \in Branches, p \in Branches, g \in GuidanceScales, t \in GuidanceTimesteps :
            ApplyPerturbedAttentionGuidance(<<u, p>>, FALSE, g, t)
    \/ \E u \in Branches, c \in Branches, g \in GuidanceScales : MeissonicGuidance(g, u, c)

SpecGuidance == InitGuidance /\ [][NextGuidance]_vars

\* the pipelines, run any number of times
InitPipeline ==
    /\ prog = "pipeline"
    /\ SchedulerInit(FixedConfig)
    /\ vg = VgStart
    /\ pipe = PipeIdle
    /\ ip = IpNone
    /\ HostIdle
    /\ set_timesteps_params = EulerParams
    /\ rt = RtNone
    /\ PagStart("AttnProcessor2_0")

NextPipeline ==
    \/ \E m \in 1..MaxInferenceSteps, l \in {1} : PipeCall("ldm", m, One, l)
    \/ \E m \in 1..MaxInferenceSteps, st \in Strengths, l \in {1} :
          PipeCall("meissonic", m, st, l)
    \/ \E mo \in PipeModelOutputs : PipeStep(mo)
    \/ PipeFinish

SpecPipeline == InitPipeline /\ [][NextPipeline]_vars

\* the training loop, started on any project_dir
InitTrain ==
    /\ prog = "train"
    /\ SchedulerInit(FixedConfig)
    /\ vg = VgStart
    /\ pipe = PipeIdle
    /\ ip = IpNone
    /\ set_timesteps_params = EulerParams
    /\ rt = RtNone
    /\ PagStart("AttnProcessor2_0")
    /\ cache = CacheIdle
    /\ fuse = FuseIdle
    /\ \E dirs \in ExistingCheckpoints, limit \in TotalLimits, every \in CheckpointingSteps,
          max \in 1..MaxTrainSteps, per \in UpdateStepsPerEpoch :
            ckpt = [CkptIdle EXCEPT !.dirs = dirs, !.checkpointing_total_limit = limit,
                                    !.checkpointing_steps = every, !.max_train_steps = max,
                                    !.num_update_steps_per_epoch = per]

NextTrain == TrainBatch

SpecTrain == InitTrain /\ [][NextTrain]_vars

\* imports of the module and calls of move_cache, on any two caches
InitCache ==
    /\ prog = "cache"
    /\ SchedulerInit(FixedConfig)
    /\ vg = VgStart
    /\ pipe = PipeIdle
    /\ ip = IpNone
    /\ set_timesteps_params = EulerParams
    /\ rt = RtNone
    /\ PagStart("AttnProcessor2_0")
    /\ ckpt = CkptIdle
    /\ fuse = FuseIdle
    /\ \E old \in OldCaches, new \in NewCaches, version_file \in VersionFiles,
          old_exists \in BOOLEAN :
            /\ ~old_exists => old = [n \in CacheNames |-> Absent]
            /\ cache = [CacheIdle EXCEPT !.old_exists = old_exists, !.old = old,
                                         !.new = new, !.version_file = version_file]

NextCache ==
    \/ \E listing \in Listings(cache.old), writable \in BOOLEAN : MoveCache(listing, writable)
    \/ \E listing \in Listings(cache.old), writable \in BOOLEAN : ImportModule(listing, writable)

SpecCache == InitCache /\ [][NextCache]_vars

\* the transformer after its construction; fusing, unfusing and setting processors
InitFuse ==
    /\ prog = "fuse"
    /\ SchedulerInit(FixedConfig)
    /\ vg = VgStart
    /\ pipe = PipeIdle
    /\ ip = IpNone
    /\ set_timesteps_params = EulerParams
    /\ rt = RtNone
    /\ PagStart("AttnProcessor2_0")
    /\ HostIdle

NextFuse ==
    \/ \E processor \in SetAttnProcessorArgs : SetAttnProcessorCall(processor)
    \/ FuseQkvProjections
    \/ UnfuseQkvProjections

SpecFuse == InitFuse /\ [][NextFuse]_vars

\* the expansion of IP-adapter scales, called on any arguments
InitIpAdapter ==
    /\ prog = "ip_adapter"
    /\ SchedulerInit(FixedConfig)
    /\ vg = VgStart
    /\ pipe = PipeIdle
    /\ ip = IpNone
    /\ HostIdle
    /\ set_timesteps_params = EulerParams
    /\ rt = RtNone
    /\ PagStart("AttnProcessor2_0")

NextIpAdapter ==
    \E sc \in IpScales, blocks \in IpBlocks, per \in IpPerBlock, whole \in BOOLEAN :
        ExpandScales(sc, blocks, per,
                     IF whole THEN UnetAttentionLayers(blocks, per)
                     ELSE UnetAttentionLayers(blocks, per) \ {"mid_block.attentions.0"})

SpecIpAdapter == InitIpAdapter /\ [][NextIpAdapter]_vars

\* the four operations of a constructed scheduler, in any order
InitOps ==
    /\ prog = "ops"
    /\ \E cfg \in Configs : cfg.beta_schedule = "linear" /\ SchedulerInit(cfg)
    /\ vg = VgStart
    /\ pipe = PipeIdle
    /\ ip = IpNone
    /\ HostIdle
    /\ set_timesteps_params = EulerParams
    /\ rt = RtNone
    /\ PagStart("AttnProcessor2_0")

NextOps ==
    \/ \E m \in 1..config.num_train_timesteps, l \in Latents : PipelineSetTimesteps(m, l)
    \/ LoopStep(One)
    \/ \E i \in 0..(Len(sigmas) - 2), s \in Latents : DirectStep(i, One, s)
    \/ \E i \in 0..(Len(sigmas) - 1), s \in Latents : ScaleModelInput(s, i)
    \/ \E i \in 0..(Len(sigmas) - 1), s \in Latents, d \in Dtypes : AddNoise(s, One, i, d)

SpecOps == InitOps /\ [][NextOps]_vars

\* the constructor, called any number of times
InitConstruct ==
    /\ prog = "construct"
    /\ NoScheduler
    /\ vg = VgStart
    /\ pipe = PipeIdle
    /\ ip = IpNone
    /\ HostIdle
    /\ set_timesteps_params = EulerParams
    /\ rt = RtNone
    /\ PagStart("AttnProcessor2_0")

NextConstruct == \E cfg \in CtorArgs : Construct(cfg)

SpecConstruct == InitConstruct /\ [][NextConstruct]_vars

\* enabling and disabling PAG on a pipeline
InitPag ==
    /\ prog = "pag"
    /\ SchedulerInit(FixedConfig)
    /\ vg = VgStart
    /\ pipe = PipeIdle
    /\ ip = IpNone
    /\ HostIdle
    /\ set_timesteps_params = EulerParams
    /\ rt = RtNone
    /\ \E p \in OriginalProcessors : PagStart(p)

NextPag ==
    \/ \E layers \in PagAppliedLayers, index \in PagAppliedLayersIndex, cfg \in BOOLEAN :
          EnablePag(One, 0, layers, index, cfg)
    \/ DisablePag

SpecPag == InitPag /\ [][NextPag]_vars

----------------------------------------------------------------------------
(* Properties of the scheduler and of the value-guided loop, under Spec.   *)

\* a < b and a = k on the rationals <<num, den>>
TsLess(a, b) == a[1] * b[2] < b[1] * a[2]
TsIs(a, k) == a[1] = k * a[2]

StrictlyDecreasing(ts) == \A i \in 1..(Len(ts) - 1) : TsLess(ts[i + 1], ts[i])

\* set_timesteps has been called on the scheduler
TimestepsSet == num_inference_steps # None

\* the latest step call was made at the last step index of the schedule
AtTerminalStep == TimestepsSet /\ last.step_index # None
                    /\ last.step_index = num_inference_steps - 1

\* C1: in a run that calls step with step_index 0, 1, ... in order after
\* set_timesteps(M), the sigma a step moves to (sigmas[step_index + 1]) is 0
\* exactly at step_index = M - 1 and strictly positive at every earlier step.
C1_TerminalSigmaAtLastStep ==
    (run_pos # None /\ run_pos >= 1) =>
        /\ last.step_index = run_pos - 1
        /\ (last.step_index = num_inference_steps - 1) => sigmas[last.step_index + 2] = 0
        /\ (last.step_index < num_inference_steps - 1) => sigmas[last.step_index + 2] > 0

\* a run of at least three steps has consumed its whole schedule
C1_Witness ==
    /\ run_pos # None /\ num_inference_steps >= 3 /\ run_pos = num_inference_steps
    /\ Len(derivatives) = num_inference_steps

\* C2: at the terminal step (step_index = M - 1 after set_timesteps(M))
\* sigma_up is exactly 0 and the prev_sample step returned is the one it
\* returns for every random draw; and the value-guided loop adds a
\* posterior-noise contribution of exactly 0 at timestep 0.
C2_NoNoiseAtTerminalStep ==
    /\ AtTerminalStep =>
          /\ SigmaUp(sigmas[last.step_index + 1], sigmas[last.step_index + 2]) = 0
          /\ \A n \in NoiseValues :
                PrevSample(sigmas, last.step_index, last.model_output, last.sample, n)
                    = last.prev_sample
    /\ (prog = "value_guided" /\ vg.t = 0) => vg.contribution = 0

\* a terminal step that drew a nonzero noise value, in a schedule of several steps
C2_Witness ==
    AtTerminalStep /\ num_inference_steps >= 2 /\ last.noise # 0 /\ last.model_output # 0

C5_DecreasingEndingAtZero ==
    TimestepsSet =>
        /\ Len(timesteps) = num_inference_steps
        /\ StrictlyDecreasing(timesteps)
        /\ TsIs(timesteps[Len(timesteps)], 0)

\* C5 amended: after set_timesteps(M), timesteps is a strictly decreasing
\* sequence of exactly M values that starts at num_train_timesteps - 1; its
\* last element is 0 when M >= 2, and for M = 1 the only timestep is
\* num_train_timesteps - 1.
C5_DecreasingFromTop ==
    TimestepsSet =>
        /\ Len(timesteps) = num_inference_steps
        /\ StrictlyDecreasing(timesteps)
        /\ TsIs(timesteps[1], config.num_train_timesteps - 1)
        /\ num_inference_steps >= 2 => TsIs(timesteps[Len(timesteps)], 0)

\* a schedule of one step taken from several training timesteps
C5_Witness ==
    TimestepsSet /\ num_inference_steps = 1 /\ config.num_train_timesteps >= 3
        /\ ~TsIs(timesteps[1], 0)

\* C6: after set_timesteps(M): len(timesteps) = M, len(sigmas) = M + 1,
\* sigmas[M] = 0, num_inference_steps = M and init_noise_sigma = sigmas[0];
\* step calls leave all of it in place.
C6_LengthsAndSentinel ==
    TimestepsSet =>
        /\ num_inference_steps >= 1
        /\ Len(timesteps) = num_inference_steps
        /\ Len(sigmas) = num_inference_steps + 1
        /\ sigmas[num_inference_steps + 1] = 0
        /\ init_noise_sigma = sigmas[1]

\* a schedule of several steps, some of them taken
C6_Witness ==
    TimestepsSet /\ num_inference_steps >= 3 /\ Len(derivatives) >= 2

\* C7 as stated: every timestep set_timesteps selects is one of the training
\* timesteps 0 .. num_train_timesteps - 1.
C7_TrainingTimesteps ==
    TimestepsSet =>
        \A i \in 1..Len(timesteps) :
            \E k \in 0..(config.num_train_timesteps - 1) : TsIs(timesteps[i], k)

\* C7 amended: every timestep set_timesteps(M) selects lies in the range
\* [0, num_train_timesteps - 1], so that its floor and its ceiling are
\* training timesteps; timestep i (from 0) is itself a training timestep
\* exactly when M - 1 divides i * (num_train_timesteps - 1) (always, for M = 1).
C7_WithinTrainingRange ==
    TimestepsSet =>
        \A i \in 1..Len(timesteps) :
            /\ 0 <= timesteps[i][1]
            /\ timesteps[i][1] <= (config.num_train_timesteps - 1) * timesteps[i][2]
            /\ Floor(timesteps[i]) \in 0..(config.num_train_timesteps - 1)
            /\ Ceil(timesteps[i]) \in 0..(config.num_train_timesteps - 1)
            /\ (\E k \in 0..(config.num_train_timesteps - 1) : TsIs(timesteps[i], k))
                   <=> ((i - 1) * (config.num_train_timesteps - 1)) % Den(num_inference_steps) = 0

\* a schedule with a timestep between two training timesteps
C7_Witness ==
    TimestepsSet /\ \E i \in 1..Len(timesteps) : Frac(timesteps[i]) # 0

\* C8: when set_timesteps is the latest call made on the scheduler,
\* derivatives is empty, whatever step calls came before it.
C8_SetTimestepsClearsDerivatives ==
    run_pos = 0 => derivatives = <<>>

\* set_timesteps called after step calls
C8_Witness ==
    run_pos = 0 /\ rng >= 2 /\ derivatives = <<>>

\* C15: derivatives is a short rolling history: its length stays below a
\* fixed constant however many step calls follow the last set_timesteps;
\* stated for the model, where at most MaxDraws step calls are made: the
\* history never holds all of them.
C15_DerivativesBounded ==
    Len(derivatives) < MaxDraws

----------------------------------------------------------------------------
(* Properties of retrieve_timesteps, under SpecRetrieve.                   *)

\* how many of num_inference_steps, timesteps, sigmas the latest call supplied
Supplied ==
    BoolInt(rt.num_inference_steps # None) + BoolInt(rt.timesteps.given)
        + BoolInt(rt.sigmas.given)

\* C4: every retrieve_timesteps call that supplies more than one of
\* num_inference_steps, timesteps, sigmas fails with ValueError and returns
\* no timestep schedule.
C4_MoreThanOneSelectorFails ==
    (rt.outcome # "none" /\ Supplied > 1) => rt.outcome = "ValueError"

----------------------------------------------------------------------------
(* Properties of the guidance combiners, under SpecGuidance.               *)

\* C9 as stated: with guidance scale 0.0 the combiner returns the
\* unconditional branch, whatever the other branches and the PAG scale.
C9_ZeroScaleReturnsUncond ==
    (guide.fn # "none" /\ guide.guidance_scale = 0) => guide.result = guide.uncond

\* C9 amended: with guidance scale 0.0 PAGMixin returns the unconditional
\* branch when its PAG term vanishes (PAG scale 0, or the perturbed branch
\* equal to the branch it is subtracted from: text with classifier-free
\* guidance, uncond without, where guidance_scale is not read at all); the
\* Meissonic step combines only for guidance_scale > 1.0 and for any smaller
\* scale, 0.0 included, returns the conditional model output.
C9_ZeroScale ==
    /\ (guide.fn = "pag" /\ guide.cfg /\ guide.guidance_scale = 0
            /\ (guide.pag_scale = 0 \/ guide.cond = guide.perturb))
          => guide.result = guide.uncond
    /\ (guide.fn = "pag" /\ ~guide.cfg
            /\ (guide.pag_scale = 0 \/ guide.uncond = guide.perturb))
          => guide.result = guide.uncond
    /\ (guide.fn = "meissonic" /\ guide.guidance_scale <= One)
          => guide.result = guide.cond

\* PAG with classifier-free guidance at scale 0.0, a positive PAG scale and
\* a perturbed branch equal to the text branch but not to the unconditional one
C9_Witness ==
    /\ guide.fn = "pag" /\ guide.cfg /\ guide.guidance_scale = 0 /\ guide.pag_scale > 0
    /\ guide.cond = guide.perturb /\ guide.cond # guide.uncond
    /\ guide.result = guide.uncond

\* C10: with guidance scale 1.0 and identical branches (unconditional =
\* conditional, and perturbed equal to them when present) the combiner
\* returns the unconditional branch unchanged.
C10_UnitScaleIdenticalBranches ==
    /\ (guide.fn = "pag" /\ guide.guidance_scale = One
            /\ guide.cond = guide.uncond /\ guide.perturb = guide.uncond)
          => guide.result = guide.uncond
    /\ (guide.fn = "meissonic" /\ guide.guidance_scale = One /\ guide.cond = guide.uncond)
          => guide.result = guide.uncond

\* PAG with classifier-free guidance at scale 1.0 on three equal nonzero branches
C10_Witness ==
    /\ guide.fn = "pag" /\ guide.cfg /\ guide.guidance_scale = One /\ guide.pag_scale > 0
    /\ guide.uncond # 0 /\ guide.cond = guide.uncond /\ guide.perturb = guide.uncond

\* C11: with classifier-free guidance _apply_perturbed_attention_guidance
\* reads noise_pred as the chunks (unconditional, text, perturbed) and returns
\* uncond + guidance_scale * (text - uncond) + pag_scale * (text - perturbed);
\* without it, it reads (unconditional, perturbed) and returns
\* uncond + pag_scale * (uncond - perturbed); pag_scale is _get_pag_scale(t):
\* the pag_scale setting, or with adaptive scaling
\* max(0, pag_scale - pag_adaptive_scaling * (1000 - t)).
C11_PagCombination ==
    guide.fn = "pag" =>
        /\ guide.pag_scale =
              IF guide.set_adaptive_scaling > 0
              THEN IF guide.set_scale - guide.set_adaptive_scaling * (1000 - guide.t) < 0
                   THEN 0
                   ELSE guide.set_scale - guide.set_adaptive_scaling * (1000 - guide.t)
              ELSE guide.set_scale
        /\ guide.cfg =>
              guide.result = guide.uncond
                             + (guide.guidance_scale * (guide.cond - guide.uncond)) \div One
                             + (guide.pag_scale * (guide.cond - guide.perturb)) \div One
        /\ ~guide.cfg =>
              guide.result = guide.uncond
                             + (guide.pag_scale * (guide.uncond - guide.perturb)) \div One

\* a combination of three different branches with classifier-free guidance,
\* under an adaptive PAG scale that the timestep has reduced but not to 0
C11_Witness ==
    /\ guide.fn = "pag" /\ guide.cfg /\ guide.guidance_scale > One
    /\ guide.uncond # guide.cond /\ guide.cond # guide.perturb /\ guide.uncond # guide.perturb
    /\ guide.set_adaptive_scaling > 0
    /\ 0 < guide.pag_scale /\ guide.pag_scale < guide.set_scale

----------------------------------------------------------------------------
(* Properties of the constructor, under SpecConstruct.                     *)

NonDecreasing(q) == \A i \in 1..(Len(q) - 1) : q[i] <= q[i + 1]
NonIncreasing(q) == \A i \in 1..(Len(q) - 1) : q[i] >= q[i + 1]
Monotonic(q) == NonDecreasing(q) \/ NonIncreasing(q)

\* the latest constructor call built its betas from a schedule family
FamilyConstructed ==
    /\ ctor.outcome = "constructed"
    /\ ~ctor.args.trained_betas.given
    /\ ctor.args.beta_schedule \in BetaSchedules

\* C12 as stated: for linear and scaled_linear and every num_train_timesteps
\* N >= 1 the constructor leaves betas with N monotonic entries and sigmas
\* monotonic with N entries.
C12_SequencesOfLengthN ==
    FamilyConstructed =>
        /\ Len(betas) = ctor.args.num_train_timesteps /\ Monotonic(betas)
        /\ Len(sigmas) = ctor.args.num_train_timesteps /\ Monotonic(sigmas)

\* C12 amended: for linear and scaled_linear and every N >= 1 the constructor
\* leaves betas with N monotonic entries (from beta_start to beta_end) and
\* derives one sigma per training timestep, N non-decreasing values; the
\* sigmas it stores are these N values reversed and followed by 0.0: N + 1
\* non-increasing entries.
C12_SigmasWithSentinel ==
    FamilyConstructed =>
        LET n == ctor.args.num_train_timesteps
            train == TrainSigmas(alphas_cumprod)
        IN  /\ Len(betas) = n /\ Monotonic(betas)
            /\ (ctor.args.beta_start <= ctor.args.beta_end) => NonDecreasing(betas)
            /\ (ctor.args.beta_start >= ctor.args.beta_end) => NonIncreasing(betas)
            /\ Len(train) = n /\ NonDecreasing(train)
            /\ Len(sigmas) = n + 1 /\ NonIncreasing(sigmas)
            /\ sigmas[n + 1] = 0
            /\ \A i \in 1..n : sigmas[i] = train[n + 1 - i]

\* a scaled_linear schedule of at least three rising betas and falling sigmas
C12_Witness ==
    /\ FamilyConstructed /\ ctor.args.beta_schedule = "scaled_linear"
    /\ ctor.args.num_train_timesteps >= 3
    /\ betas[1] < betas[2] /\ betas[2] < betas[3]
    /\ sigmas[1] > sigmas[2] /\ sigmas[2] > sigmas[3]

\* C13 as stated: a constructor call with a beta_schedule that is neither
\* linear nor scaled_linear raises NotImplementedError whatever the other
\* arguments, trained_betas included, and yields no scheduler.
C13_UnknownScheduleRaises ==
    (ctor.outcome # "none" /\ ctor.args.beta_schedule \notin BetaSchedules) =>
        ctor.outcome = "NotImplementedError" /\ config = NoConfig

\* C13 amended: a constructor call without trained_betas and with a
\* beta_schedule that is neither linear nor scaled_linear raises
\* NotImplementedError, whatever num_train_timesteps, beta_start and beta_end,
\* and yields no scheduler; with trained_betas the schedule name is not read:
\* the call returns a scheduler whose betas are the trained_betas.
C13_UnknownScheduleRaisesWithoutTrainedBetas ==
    (ctor.outcome # "none" /\ ctor.args.beta_schedule \notin BetaSchedules) =>
        IF ctor.args.trained_betas.given
        THEN /\ ctor.outcome = "constructed"
             /\ config = ctor.args
             /\ betas = ctor.args.trained_betas.value
        ELSE /\ ctor.outcome = "NotImplementedError"
             /\ config = NoConfig /\ betas = <<>> /\ sigmas = <<>> /\ timesteps = <<>>

\* an unknown schedule name accepted along with trained_betas
C13_Witness ==
    /\ ctor.outcome = "constructed" /\ ctor.args.beta_schedule = "cubic"
    /\ ctor.args.trained_betas.given /\ Len(betas) # ctor.args.num_train_timesteps

----------------------------------------------------------------------------
(* Properties of the scheduler's operations in any order, under SpecOps.   *)

\* C14 as stated: no set_timesteps, scale_model_input, step or add_noise
\* call changes the betas, alphas_cumprod or sigmas the constructor built.
C14_ScheduleImmutable ==
    [][betas' = betas /\ alphas_cumprod' = alphas_cumprod /\ sigmas' = sigmas]_vars

\* C14 amended: no set_timesteps, scale_model_input, step or add_noise call
\* changes betas or alphas_cumprod.  sigmas is not immutable: scale_model_input
\* and step leave it, every set_timesteps(M) replaces it by the M sigmas
\* interpolated at the new timesteps followed by 0.0 (float32), and add_noise
\* reassigns it to its conversion to the dtype of the samples, of the same length.
C14_TrainingScheduleImmutable ==
    [][/\ betas' = betas
       /\ alphas_cumprod' = alphas_cumprod
       /\ (sigmas' # sigmas \/ sigmas_dtype' # sigmas_dtype) =>
             \/ /\ run_pos' = 0
                /\ num_inference_steps' # None
                /\ sigmas_dtype' = "float32"
                /\ Len(sigmas') = num_inference_steps' + 1
                /\ sigmas'[Len(sigmas')] = 0
                /\ \A i \in 1..num_inference_steps' :
                      sigmas'[i] = InterpSigma(TrainSigmas(alphas_cumprod), timesteps'[i])
             \/ /\ ret'.fn = "add_noise"
                /\ Len(sigmas') = Len(sigmas)
                /\ \A i \in 1..Len(sigmas) : sigmas'[i] = ToDtype(sigmas[i], sigmas_dtype')
      ]_vars

\* a set_timesteps has replaced the constructor's sigmas by a shorter sequence,
\* steps were taken and add_noise has converted the sigmas to float16, and betas
\* and alphas_cumprod are those of the constructor
C14_Witness ==
    /\ prog = "ops"
    /\ num_inference_steps # None /\ Len(sigmas) < config.num_train_timesteps + 1
    /\ derivatives # <<>> /\ ret.fn = "add_noise" /\ sigmas_dtype = "float16"
    /\ betas = InitBetas(config) /\ alphas_cumprod = InitAlphasCumprod(betas)

----------------------------------------------------------------------------
(* Properties of the pipeline runs, under SpecPipeline.                    *)

\* how many step calls the run has made
StepCalls == Len(pipe.calls) - 1

\* C16: a pipeline run calls set_timesteps exactly once, before any step;
\* its step calls follow the order of scheduler.timesteps (each at the
\* position after the one of the call before it), and each is given as
\* sample the prev_sample the call before it returned, the first one the
\* initial latents.
C16_SelectOnceThenStepInOrder ==
    pipe.pc # "idle" =>
        /\ Len(pipe.calls) >= 1
        /\ pipe.calls[1].fn = "set_timesteps"
        /\ \A k \in 2..Len(pipe.calls) :
              /\ pipe.calls[k].fn = "step"
              /\ pipe.calls[k].idx \in 0..(Len(pipe.timesteps) - 1)
              /\ pipe.calls[k].t = pipe.timesteps[pipe.calls[k].idx + 1]
              /\ k > 2 => pipe.calls[k].idx = pipe.calls[k - 1].idx + 1
              /\ pipe.calls[k].sample = IF k = 2 THEN pipe.initial
                                        ELSE pipe.calls[k - 1].prev_sample
        /\ pipe.latents = IF StepCalls = 0 THEN pipe.initial
                          ELSE pipe.calls[Len(pipe.calls)].prev_sample

\* a finished MeissonicInpaintPipeline run of at least three steps
C16_Witness ==
    pipe.pc = "done" /\ pipe.kind = "meissonic" /\ StepCalls >= 3

\* C17 as stated: a finished run has called step once for each element of
\* scheduler.timesteps, in order, whatever num_inference_steps and strength.
C17_ScheduleFullyConsumed ==
    pipe.pc = "done" =>
        /\ StepCalls = Len(pipe.timesteps)
        /\ \A j \in 1..StepCalls : pipe.calls[j + 1].idx = j - 1

\* C17 amended: a finished LDMPipeline run has called step once for each
\* element of scheduler.timesteps; a finished MeissonicInpaintPipeline run
\* has called step once for each of the last int(len(timesteps) * strength)
\* elements and for none of those before them: for the whole schedule when
\* strength is 1, for none of it when int(len(timesteps) * strength) is 0.
C17_ScheduleSuffixConsumed ==
    pipe.pc = "done" =>
        LET len == Len(pipe.timesteps)
            n == IF pipe.kind = "ldm" THEN len ELSE (len * pipe.strength) \div One
        IN  /\ StepCalls = n
            /\ \A j \in 1..n : pipe.calls[j + 1].idx = len - n + j - 1
            /\ (pipe.kind = "ldm" \/ pipe.strength = One) => n = len
            /\ (pipe.kind = "meissonic" /\ pipe.strength = 0) => n = 0

\* a finished MeissonicInpaintPipeline run that skipped the first timesteps of
\* its schedule and stepped through the rest
C17_Witness ==
    /\ pipe.pc = "done" /\ pipe.kind = "meissonic" /\ pipe.strength < One
    /\ StepCalls >= 2 /\ StepCalls < Len(pipe.timesteps)
    /\ pipe.calls[2].idx > 0

----------------------------------------------------------------------------
(* Further properties of retrieve_timesteps, under SpecRetrieveRun.        *)

\* the latest retrieve_timesteps call passed only timesteps, or only sigmas,
\* to a scheduler whose set_timesteps has no such parameter
RejectedCustomSchedule(call) ==
    \/ call.timesteps.given /\ ~call.sigmas.given /\ ~set_timesteps_params.timesteps
    \/ call.sigmas.given /\ ~call.timesteps.given /\ ~set_timesteps_params.sigmas

\* C18: retrieve_timesteps with explicit timesteps (or explicit sigmas) on a
\* scheduler whose set_timesteps does not accept them raises ValueError and
\* does not call set_timesteps: the scheduler's timesteps, sigmas,
\* num_inference_steps and derivatives are what they were before the call.
C18_RejectedWithoutSetTimesteps ==
    [][(rt' # rt /\ RejectedCustomSchedule(rt')) =>
          /\ rt'.outcome = "ValueError"
          /\ rt'.ret_timesteps = <<>>
          /\ timesteps' = timesteps
          /\ sigmas' = sigmas
          /\ num_inference_steps' = num_inference_steps
          /\ derivatives' = derivatives
          /\ init_noise_sigma' = init_noise_sigma]_vars

\* explicit timesteps rejected by a scheduler with the set_timesteps signature of
\* EulerAncestralDiscreteScheduler, after a set_timesteps and two steps
C18_Witness ==
    /\ set_timesteps_params = EulerParams
    /\ rt.outcome = "ValueError" /\ rt.timesteps.given /\ ~rt.sigmas.given
    /\ num_inference_steps # None /\ Len(derivatives) >= 2

----------------------------------------------------------------------------
(* Properties of enable_pag and disable_pag, under SpecPag.                *)

\* C19: disable_pag called while PAG is not enabled (never enabled on the
\* object, or already disabled) raises ValueError("PAG is not enabled.") and
\* changes no attention processor and no PAG setting.
C19_DisableWhenNotEnabled ==
    [][(pag_call' # pag_call /\ pag_call'.fn = "disable_pag"
            /\ ~(pag.has_attrs /\ pag.is_pag_enabled)) =>
          /\ pag_call'.outcome = "ValueError"
          /\ processors' = processors
          /\ pag' = pag]_vars

----------------------------------------------------------------------------
(* Properties of the IP-adapter scale expansion, under SpecIpAdapter.      *)

\* the dict the docstring gives for its example
DocumentedResult ==
    "down.block_1.0" :> 2 @@ "down.block_1.1" :> 2 @@ "down.block_2.0" :> 2
    @@ "down.block_2.1" :> 2 @@ "mid" :> 3 @@ "up.block_0.0" :> 4 @@ "up.block_0.1" :> 4
    @@ "up.block_0.2" :> 4 @@ "up.block_1.0" :> 5 @@ "up.block_1.1" :> 6
    @@ "up.block_1.2" :> 7

\* C20: _maybe_expand_scales_for_one_ip_adapter returns for the example of
\* its docstring exactly the dict the docstring shows, and in general a dict
\* with one entry "<direction>.block_<i>.<j>" for every direction, block
\* with transformers and transformer index, plus "mid"; the caller's scales
\* are not changed.
C20_ExpandsAsDocumented ==
    ip.outcome = "returned" =>
        /\ (ip.scales = ExampleScales /\ ip.blocks_with_transformer = ExampleBlocks
                /\ ip.transformer_per_block = ExamplePerBlock)
              => ip.result = DocumentedResult
        /\ DOMAIN ip.result =
              {"mid"} \cup
              {FriendlyName(c[1], c[2], c[3]) :
                  c \in {c \in Coordinates :
                            /\ \E k \in 1..Len(ip.blocks_with_transformer[c[1]]) :
                                  ip.blocks_with_transformer[c[1]][k] = c[2]
                            /\ c[3] < ip.transformer_per_block[c[1]]}}
        /\ ip.scales_after = ip.scales

----------------------------------------------------------------------------
(* Properties of the checkpoint rotation, under SpecTrain.                 *)

\* C21: immediately after every checkpoint save the number of checkpoints in
\* project_dir is at most checkpointing_total_limit, for every limit >= 0
\* and any pre-existing checkpoints, and the checkpoints removed are those
\* with the smallest numbers.
C21_AtMostLimitCheckpoints ==
    ckpt.saved =>
        /\ Cardinality(ckpt.dirs) <= ckpt.checkpointing_total_limit
        /\ \A r \in ckpt.removing_checkpoints :
              \A d \in ckpt.before \ ckpt.removing_checkpoints : r < d

----------------------------------------------------------------------------
(* Properties of the cache migration, under SpecCache.                     *)

\* C22: move_cache moves directories only (plain files of the old cache
\* stay in place) and skips every directory whose name is already a
\* directory of the new cache: neither the old copy nor the existing new copy
\* is moved or modified.
C22_ExistingDirectoriesSkipped ==
    cache.call.fn = "move_cache" =>
        \A n \in CacheNames :
            /\ cache.call.old_before[n].kind = "file" => cache.old[n] = cache.call.old_before[n]
            /\ (cache.call.old_before[n].kind = "dir" /\ cache.call.new_before[n].kind = "dir")
                  => /\ cache.old[n] = cache.call.old_before[n]
                     /\ cache.new[n] = cache.call.new_before[n]

----------------------------------------------------------------------------
(* Properties of fusing and unfusing the projections, under SpecFuse.      *)

\* C28: fuse_qkv_projections followed by unfuse_qkv_projections restores
\* every attention layer's processor to the one it had before fusing, and
\* every further unfuse_qkv_projections raises no error and changes nothing.
C28_UnfuseRestoresAndRepeats ==
    (fuse.call.fn = "unfuse_qkv_projections" /\ fuse.unfuses # None) =>
        /\ fuse.call.outcome = "returned"
        /\ fuse.processors = fuse.prefuse

----------------------------------------------------------------------------
(* Frame properties of the scheduler's operations, under SpecOps.          *)

\* C24: step changes no scheduler state other than appending exactly one
\* entry to derivatives: timesteps, sigmas, num_inference_steps,
\* init_noise_sigma and the beta schedule are unchanged, the tensor passed as
\* sample holds after the call what it held before, and after k step calls
\* since the latest set_timesteps derivatives has k entries.  A step call is
\* the one operation that draws from the random generator.
C24_StepAppendsOneDerivative ==
    /\ [](Len(derivatives) = step_calls)
    /\ [][rng' # rng =>
            /\ timesteps' = timesteps
            /\ sigmas' = sigmas /\ sigmas_dtype' = sigmas_dtype
            /\ num_inference_steps' = num_inference_steps
            /\ init_noise_sigma' = init_noise_sigma
            /\ betas' = betas /\ alphas_cumprod' = alphas_cumprod
            /\ config' = config
            /\ Len(derivatives') = Len(derivatives) + 1
            /\ SubSeq(derivatives', 1, Len(derivatives)) = derivatives
            /\ last'.sample_after = last'.sample]_vars

\* three step calls followed a set_timesteps that followed earlier step calls
C24_Witness ==
    /\ num_inference_steps # None
    /\ step_calls = 3
    /\ rng = 4
    /\ Len(derivatives) = 3
    /\ last.prev_sample # last.sample

\* the scheduler is as a set_timesteps call left it
AfterSetTimesteps == ret.fn = "set_timesteps" /\ step_calls = 0

\* C25: set_timesteps is history-independent: whatever calls of
\* set_timesteps, step, scale_model_input and add_noise preceded it,
\* set_timesteps(M) leaves the timesteps, sigmas, init_noise_sigma,
\* num_inference_steps and derivatives that M and the constructor's config
\* determine (so that a second set_timesteps(M) changes nothing), and
\* set_timesteps(num_train_timesteps) leaves the sigmas of the constructor.
C25_SetTimestepsHistoryIndependent ==
    AfterSetTimesteps =>
        LET M == num_inference_steps
            N == config.num_train_timesteps
            train == TrainSigmas(InitAlphasCumprod(InitBetas(config)))
        IN  /\ M \in 1..N
            /\ timesteps = SetTimestepsLinspace(N, M)
            /\ Len(sigmas) = M + 1
            /\ \A i \in 1..M : sigmas[i] = InterpSigma(train, timesteps[i])
            /\ sigmas[M + 1] = 0
            /\ sigmas_dtype = "float32"
            /\ init_noise_sigma = sigmas[1]
            /\ derivatives = <<>>
            /\ M = N => sigmas = InitSigmas(InitAlphasCumprod(InitBetas(config)))

\* set_timesteps(num_train_timesteps) was called after at least two step calls
C25_Witness ==
    /\ AfterSetTimesteps
    /\ rng >= 2
    /\ num_inference_steps = config.num_train_timesteps
    /\ config.num_train_timesteps >= 3

----------------------------------------------------------------------------
(* Properties of enable_pag and disable_pag over sequences of calls, under *)
(* SpecPag.                                                                *)

\* C26: after disable_pag returns no self-attention layer of the unet holds a
\* PAG processor, whatever enable_pag calls preceded it.
C26_NoPagProcessorAfterDisable ==
    (pag_call.fn = "disable_pag" /\ pag_call.outcome = "returned") =>
        \A ty \in LayerTypes : \A i \in 1..Len(processors[ty]) :
            processors[ty][i] \notin PagProcessors

\* C27: an enable_pag call that raises ValueError for an invalid layer
\* specifier leaves the pipeline as it was: no layer's processor is replaced
\* and PAG is not enabled unless it was before the call.
C27_FailedEnableChangesNothing ==
    [][(pag_call'.fn = "enable_pag" /\ pag_call'.outcome = "ValueError") =>
          /\ processors' = processors
          /\ pag'.is_pag_enabled => pag.is_pag_enabled]_vars

====
